---- MODULE Spec2Model ----
(***************************************************************************)
(* A model of rbf/linalg.py: the solver classes Solver, PosDefSolver,      *)
(* PartitionedSolver, PartitionedPosDefSolver and GMRESSolver, the free    *)
(* function is_positive_definite, and the LAPACK / SuperLU / CHOLMOD       *)
(* wrappers they are built from.                                           *)
(*                                                                         *)
(* Matrices are drawn from a family that is closed under every operation   *)
(* of the module and on which floating point arithmetic is exact:          *)
(*   A = diag(d)            d a sequence over DiagVals, n = Len(d)         *)
(*   B = (n, p) matrix      B[j, j] = e[j], zero elsewhere                 *)
(* Floats are exact rationals <<numerator, denominator>>, and the external *)
(* routines (LAPACK, SuperLU, CHOLMOD) compute in exact arithmetic.        *)
(***************************************************************************)
EXTENDS Integers, Sequences, FiniteSets, TLC

VARIABLES
    HAS_CHOLMOD,   \* linalg.py:18-22, fixed when the module is imported
    solver,        \* the instance the last constructor call produced, or None
    args,          \* the caller's objects as they were passed to the last call
    caller,        \* the same objects as the caller sees them after the call
    last,          \* the last call: operation, exception, value, backend calls, warnings
    gps,           \* gpr.py: the GaussianProcess instances the caller holds
    _mvmonos       \* gpr.py:346-352, the module's memoized _mvmonos

vars == <<HAS_CHOLMOD, solver, args, caller, last, gps, _mvmonos>>

\* Python's None
None == [none |-> TRUE]

\* ------------------------------------------------------------------ bounds

\* Largest system dimension n the caller supplies.
MaxN == 1

\* Entries of the caller's matrices and right-hand sides.
DiagVals == {-1, 0, 4}
OffVals == {0, 1}
RhsVals == {0, 1}
\* Trailing shapes of a right-hand side: (n,), (n, 0), (n, 1).
TrailShapes == {<<>>, <<0>>, <<1>>}

\* ------------------------------------------------------- float arithmetic

Abs(i) == IF i < 0 THEN -i ELSE i

RECURSIVE GCD(_, _)
GCD(a, b) == IF b = 0 THEN a ELSE GCD(b, a % b)

\* The rational num/den in lowest terms with a positive denominator.
Rat(num, den) ==
    LET s == IF den < 0 THEN -1 ELSE 1
        g == GCD(Abs(num), Abs(den))
    IN  <<(s * num) \div g, (s * den) \div g>>

Zero == <<0, 1>>
One == <<1, 1>>
FromInt(i) == <<i, 1>>
RAdd(x, y) == Rat(x[1] * y[2] + y[1] * x[2], x[2] * y[2])
RNeg(x) == <<-x[1], x[2]>>
RSub(x, y) == RAdd(x, RNeg(y))
RMul(x, y) == Rat(x[1] * y[1], x[2] * y[2])
RDiv(x, y) == Rat(x[1] * y[2], x[2] * y[1])
RPos(x) == x[1] > 0
RAbs(x) == <<Abs(x[1]), x[2]>>

\* The integer square root of a perfect square, and the square root of a
\* rational whose numerator and denominator are perfect squares.
ISqrt(i) == CHOOSE r \in 0..i : r * r = i
RSqrt(x) == <<ISqrt(x[1]), ISqrt(x[2])>>

\* ----------------------------------------------------------------- arrays

\* A dense float array of shape (r, ...): [shape, rows], rows[i] the entries
\* of row i flattened.
RECURSIVE Prod(_)
Prod(s) == IF s = <<>> THEN 1 ELSE Head(s) * Prod(Tail(s))

Width(shape) == Prod(Tail(shape))
Arr(shape, rows) == [shape |-> shape, rows |-> rows]
NRows(x) == x.shape[1]
HasZeroDim(shape) == \E i \in 1..Len(shape) : shape[i] = 0

\* np.zeros(shape, dtype=float)
Zeros(shape) ==
    Arr(shape, [i \in 1..shape[1] |-> [k \in 1..Width(shape) |-> Zero]])

\* np.eye(n)
Eye(n) ==
    Arr(<<n, n>>, [i \in 1..n |-> [k \in 1..n |-> IF i = k THEN One ELSE Zero]])

\* x + y, x - y and -x for arrays of one shape
ArrAdd(x, y) ==
    Arr(x.shape, [i \in 1..NRows(x) |->
        [k \in 1..Width(x.shape) |-> RAdd(x.rows[i][k], y.rows[i][k])]])
ArrNeg(x) ==
    Arr(x.shape, [i \in 1..NRows(x) |->
        [k \in 1..Width(x.shape) |-> RNeg(x.rows[i][k])]])
\* A variant with the operands of the subtraction exchanged.
ArrSubReversed(x, y) == ArrAdd(y, ArrNeg(x))
ArrSub(x, y) == ArrAdd(x, ArrNeg(y))

\* np.concatenate((x, y), axis=0) and the slices xy[:n], xy[n:]
Concat(x, y) == Arr(<<NRows(x) + NRows(y)>> \o Tail(x.shape), x.rows \o y.rows)
Take(x, n) ==
    LET k == IF n < NRows(x) THEN n ELSE NRows(x)
    IN  Arr(<<k>> \o Tail(x.shape), SubSeq(x.rows, 1, k))
Drop(x, n) ==
    LET k == IF n < NRows(x) THEN n ELSE NRows(x)
    IN  Arr(<<NRows(x) - k>> \o Tail(x.shape), SubSeq(x.rows, k + 1, NRows(x)))

\* The columns lo..hi of a 2-dimensional array: X[:, lo-1:hi]
ColSlice(X, lo, hi) ==
    Arr(<<NRows(X), hi - lo + 1>>, [i \in 1..NRows(X) |-> SubSeq(X.rows[i], lo, hi)])

\* X.T for a 2-dimensional array
Transpose(X) ==
    Arr(<<X.shape[2], X.shape[1]>>,
        [j \in 1..X.shape[2] |-> [i \in 1..X.shape[1] |-> X.rows[i][j]]])

\* sum over j in 1..m of u[j] * v[j][k]
RECURSIVE DotSum(_, _, _, _)
DotSum(u, v, k, m) ==
    IF m = 0 THEN Zero ELSE RAdd(DotSum(u, v, k, m - 1), RMul(u[m], v[m][k]))

\* X.dot(b) for a 2-dimensional X of shape (r, c) and b of shape (c, ...)
Dot(X, b) ==
    Arr(<<NRows(X)>> \o Tail(b.shape),
        [i \in 1..NRows(X) |->
            [k \in 1..Width(b.shape) |-> DotSum(X.rows[i], b.rows, k, X.shape[2])]])

\* Whether X.dot(b) is defined: the inner dimensions agree.
DotOk(X, b) == X.shape[2] = NRows(b)

\* -------------------------------------------- exact linear algebra kernels

Singular == "singular"
NotPosDef == "notposdef"

RowSub(u, f, v) == [k \in 1..Len(u) |-> RSub(u[k], RMul(f, v[k]))]

\* sum over j in 2..m of pr[j] * Y[j - 1][k]
RECURSIVE BackSum(_, _, _, _)
BackSum(pr, Y, k, m) ==
    IF m < 2 THEN Zero ELSE RAdd(BackSum(pr, Y, k, m - 1), RMul(pr[m], Y[m - 1][k]))

\* Gaussian elimination with row pivoting in exact arithmetic: the rows X
\* with M.X = R, or Singular when a pivot column holds no nonzero entry.
\* M is a sequence of m rows of m entries, R a sequence of m rows.
RECURSIVE GaussSolve(_, _)
GaussSolve(M, R) ==
    LET m == Len(M)
    IN  IF m = 0 THEN <<>>
        ELSE IF \A i \in 1..m : M[i][1] = Zero THEN Singular
        ELSE
            LET piv == CHOOSE i \in 1..m :
                           /\ M[i][1] # Zero
                           /\ \A t \in 1..(i - 1) : M[t][1] = Zero
                pr == M[piv]
                rr == R[piv]
                \* the other rows, in order, with row piv moved to the top
                rest == [t \in 1..(m - 1) |-> IF t < piv THEN t ELSE t + 1]
                M2 == [t \in 1..(m - 1) |->
                          Tail(RowSub(M[rest[t]], RDiv(M[rest[t]][1], pr[1]), pr))]
                R2 == [t \in 1..(m - 1) |->
                          RowSub(R[rest[t]], RDiv(M[rest[t]][1], pr[1]), rr)]
                Y == GaussSolve(M2, R2)
            IN  IF Y = Singular THEN Singular
                ELSE <<[k \in 1..Len(rr) |->
                          RDiv(RSub(rr[k], BackSum(pr, Y, k, m)), pr[1])]>> \o Y

\* The Cholesky factor L (lower triangular rows, L.L^T = M) by the outer
\* product algorithm, or NotPosDef when a leading minor is not positive.
RECURSIVE Chol(_)
Chol(M) ==
    LET m == Len(M)
    IN  IF m = 0 THEN <<>>
        ELSE IF ~RPos(M[1][1]) THEN NotPosDef
        ELSE
            LET l == RSqrt(M[1][1])
                col == [i \in 1..(m - 1) |-> RDiv(M[i + 1][1], l)]
                M2 == [i \in 1..(m - 1) |-> [j \in 1..(m - 1) |->
                          RSub(M[i + 1][j + 1], RMul(col[i], col[j]))]]
                L2 == Chol(M2)
            IN  IF L2 = NotPosDef THEN NotPosDef
                ELSE <<<<l>> \o [j \in 1..(m - 1) |-> Zero]>>
                     \o [i \in 1..(m - 1) |-> <<col[i]>> \o L2[i]]

\* The product of the diagonal of a square array
RECURSIVE DiagProd(_, _)
DiagProd(rows, m) ==
    IF m = 0 THEN One ELSE RMul(DiagProd(rows, m - 1), rows[m][m])

\* ------------------------------------------------ calls and their outcomes

\* One invocation of an external routine on an operand with `size` rows.
Call(fn, size) == [fn |-> fn, size |-> size]

\* What a function call comes to: the exception it raised ("none" when it
\* returned), the value returned, the external routines it invoked in
\* order, and the warnings it emitted.
Ok(val, calls) == [exc |-> "none", val |-> val, calls |-> calls, warns |-> 0]
Raise(exc, calls) == [exc |-> exc, val |-> None, calls |-> calls, warns |-> 0]
Raised(r) == r.exc # "none"
\* The outcome r of a call made after the call that came to prev returned.
After(prev, r) ==
    [r EXCEPT !.calls = prev.calls \o r.calls, !.warns = prev.warns + r.warns]
\* Statement sequencing: F applied to the value r returned, unless r raised.
Bind(r, F(_)) == IF Raised(r) THEN r ELSE After(r, F(r.val))
\* warnings.warn(CHOLMOD_MSG) before the call that came to r
Warned(r) == [r EXCEPT !.warns = r.warns + 1]

\* --------------------------------------------------- matrix representation

\* A caller's matrix or right-hand side: rep is "array" (numpy array), "csc"
\* or "csr" (scipy sparse); bad marks an operand for which LAPACK reports
\* an illegal argument (a negative status).
Obj(rep, shape, rows, bad) ==
    [rep |-> rep, shape |-> shape, rows |-> rows, bad |-> bad]

\* sp.issparse(A)
issparse(A) == A.rep \in {"csc", "csr"}

IsBad(A) == "bad" \in DOMAIN A /\ A.bad

as_sparse_or_array(A) ==
    IF issparse(A) THEN [A EXCEPT !.rep = "csc"] ELSE [A EXCEPT !.rep = "array"]

as_array(A) == [A EXCEPT !.rep = "array"]

\* A.nnz / (A.shape[0] * A.shape[1]) of the debug messages divides by zero
\* for a matrix without entries.
DensityDivisor(A) == A.shape[1] * A.shape[2]

\* ------------------------------------------------------- LAPACK wrappers

\* The status dgetrf returns: negative for an illegal argument, positive
\* when U has an exactly zero pivot, else 0.
DgetrfInfo(A) ==
    IF IsBad(A) THEN -1
    ELSE IF GaussSolve(A.rows, [i \in 1..NRows(A) |-> <<>>]) = Singular THEN 1
    ELSE 0

\* The status dpotrf returns: negative for an illegal argument, positive
\* when a leading minor is not positive definite, else 0.
DpotrfInfo(A) ==
    IF IsBad(A) THEN -1 ELSE IF Chol(A.rows) = NotPosDef THEN 1 ELSE 0

\* The status dtrtrs returns: positive when L has a zero on its diagonal.
DtrtrsInfo(L) ==
    IF \E i \in 1..NRows(L) : L.rows[i][i] = Zero THEN 1 ELSE 0

\* The f2py wrappers reject a right-hand side whose leading dimension is
\* not that of the factor.
ShapeFits(fac, b) == NRows(fac) = NRows(b)

\* A variant that factors a second time before it gives up.
_lu_retrying(A) ==
    IF A.shape = <<0, 0>> THEN Ok(Zeros(<<0, 0>>), <<>>)
    ELSE
        LET info == DgetrfInfo(A)
            c == <<Call("dgetrf", NRows(A))>>
        IN  IF info < 0 THEN Raise("ValueError", c)
            ELSE IF info > 0 THEN Raise("LinAlgError", c \o c)
            ELSE Ok(Arr(A.shape, A.rows), c)

_lu(A) ==
    IF A.shape = <<0, 0>> THEN Ok(Zeros(<<0, 0>>), <<>>)
    ELSE
        LET info == DgetrfInfo(A)
            c == <<Call("dgetrf", NRows(A))>>
        IN  IF info < 0 THEN Raise("ValueError", c)
            ELSE IF info > 0 THEN Raise("LinAlgError", c)
            ELSE Ok(Arr(A.shape, A.rows), c)

_cholesky(A) ==
    IF A.shape = <<0, 0>> THEN Ok(Zeros(<<0, 0>>), <<>>)
    ELSE
        LET info == DpotrfInfo(A)
            c == <<Call("dpotrf", NRows(A))>>
        IN  IF info < 0 THEN Raise("ValueError", c)
            ELSE IF info > 0 THEN Raise("LinAlgError", c)
            ELSE Ok(Arr(A.shape, Chol(A.rows)), c)

\* fac stands for the pair (fac, piv): the matrix whose LU factors they are.
\* A variant that leaves out the division by the pivots.
_solve_lu_unscaled(fac, b) ==
    IF HasZeroDim(b.shape) THEN Ok(Zeros(b.shape), <<>>)
    ELSE Ok(Arr(b.shape, b.rows), <<Call("dgetrs", NRows(fac))>>)

_solve_lu(fac, b) ==
    IF HasZeroDim(b.shape) THEN Ok(Zeros(b.shape), <<>>)
    ELSE
        LET c == <<Call("dgetrs", NRows(fac))>>
        IN  IF ~ShapeFits(fac, b) THEN Raise("flapack.error", c)
            ELSE Ok(Arr(b.shape, GaussSolve(fac.rows, b.rows)), c)

_solve_cholesky(L, b) ==
    IF HasZeroDim(b.shape) THEN Ok(Zeros(b.shape), <<>>)
    ELSE
        LET c == <<Call("dpotrs", NRows(L))>>
        IN  IF ~ShapeFits(L, b) THEN Raise("flapack.error", c)
            ELSE Ok(Arr(b.shape,
                        GaussSolve(Transpose(L).rows, GaussSolve(L.rows, b.rows))), c)

_solve_triangular(L, b) ==
    IF HasZeroDim(b.shape) THEN Ok(Zeros(b.shape), <<>>)
    ELSE
        LET c == <<Call("dtrtrs", NRows(L))>>
        IN  IF ~ShapeFits(L, b) THEN Raise("flapack.error", c)
            ELSE IF DtrtrsInfo(L) > 0 THEN Raise("LinAlgError", c)
            ELSE Ok(Arr(b.shape, GaussSolve(L.rows, b.rows)), c)

\* ------------------------------------------------------- backend solvers

_SparseSolver_init(A) ==
    IF DensityDivisor(A) = 0 THEN Raise("ZeroDivisionError", <<>>)
    ELSE
        LET c == <<Call("splu", NRows(A))>>
        IN  IF GaussSolve(A.rows, [i \in 1..NRows(A) |-> <<>>]) = Singular
            THEN Raise("RuntimeError", c)
            ELSE Ok([type |-> "_SparseSolver", fac |-> Arr(A.shape, A.rows)], c)

_SparseSolver_solve(self, b) ==
    LET c == <<Call("SuperLU.solve", NRows(self.fac))>>
    IN  IF ~ShapeFits(self.fac, b) THEN Raise("ValueError", c)
        ELSE Ok(Arr(b.shape, GaussSolve(self.fac.rows, b.rows)), c)

_DenseSolver_init(A) ==
    LET r == _lu(A)
    IN  IF Raised(r) THEN r
        ELSE Ok([type |-> "_DenseSolver", fac |-> r.val], r.calls)

_DenseSolver_solve(self, b) == _solve_lu(self.fac, b)

\* self._solver.solve(b) of Solver and PartitionedSolver
LUBackendSolve(self, b) ==
    IF self.type = "_SparseSolver" THEN _SparseSolver_solve(self, b)
    ELSE _DenseSolver_solve(self, b)

\* chol is L with L.L^T = A; CHOLMOD's D() is the squared diagonal of L and
\* its fill-reducing permutation P() is taken to be the identity.
_SparsePosDefSolver_init(A) ==
    IF DensityDivisor(A) = 0 THEN Raise("ZeroDivisionError", <<>>)
    ELSE
        LET c == <<Call("cholmod.cholesky", NRows(A))>>
        IN  IF Chol(A.rows) = NotPosDef
            THEN Raise("CholmodNotPositiveDefiniteError", c)
            ELSE Ok([type |-> "_SparsePosDefSolver",
                     chol |-> Arr(A.shape, Chol(A.rows))], c)

_SparsePosDefSolver_solve(self, b) ==
    LET c == <<Call("cholmod.solve_A", NRows(self.chol))>>
    IN  IF ~ShapeFits(self.chol, b) THEN Raise("CholmodError", c)
        ELSE Ok(Arr(b.shape, GaussSolve(Transpose(self.chol).rows,
                                        GaussSolve(self.chol.rows, b.rows))), c)

_SparsePosDefSolver_solve_L(self, b) ==
    IF Len(b.shape) \notin {1, 2} THEN Raise("ValueError", <<>>)
    ELSE IF NRows(b) < NRows(self.chol) THEN Raise("IndexError", <<>>)
    ELSE
        LET c == <<Call("cholmod.solve_L", NRows(self.chol))>>
        IN  IF ~ShapeFits(self.chol, b) THEN Raise("CholmodError", c)
            ELSE Ok(Arr(b.shape, GaussSolve(self.chol.rows, b.rows)), c)

_SparsePosDefSolver_L(self) == Ok(self.chol, <<Call("cholmod.L", NRows(self.chol))>>)

\* log_det is the logarithm of an exact rational: [log |-> det A]
_SparsePosDefSolver_log_det(self) ==
    LET dp == DiagProd(self.chol.rows, NRows(self.chol))
    IN  Ok([log |-> RMul(dp, dp)], <<>>)

_DensePosDefSolver_init(A) ==
    LET r == _cholesky(A)
    IN  IF Raised(r) THEN r
        ELSE Ok([type |-> "_DensePosDefSolver", chol |-> r.val], r.calls)

\* A variant that factors the matrix again before each solve.
_DensePosDefSolver_solve_refactoring(self, b) ==
    LET r == _solve_cholesky(self.chol, b)
    IN  [r EXCEPT !.calls = <<Call("dpotrf", NRows(self.chol))>> \o @]

_DensePosDefSolver_solve(self, b) == _solve_cholesky(self.chol, b)

_DensePosDefSolver_solve_L(self, b) == _solve_triangular(self.chol, b)

_DensePosDefSolver_L(self) == Ok(self.chol, <<>>)

_DensePosDefSolver_log_det(self) ==
    LET dp == DiagProd(self.chol.rows, NRows(self.chol))
    IN  Ok([log |-> RMul(dp, dp)], <<>>)

\* self._solver.solve(b) of PosDefSolver, self._A_solver.solve(b)
CholBackendSolve(self, b) ==
    IF self.type = "_SparsePosDefSolver" THEN _SparsePosDefSolver_solve(self, b)
    ELSE _DensePosDefSolver_solve(self, b)

\* A variant without the dense fallback: a sparse A always goes to CHOLMOD,
\* whose name is unbound when the import failed.
CholBackend_init_no_fallback(A) ==
    IF issparse(A) THEN
        IF ~HAS_CHOLMOD THEN Raise("NameError", <<>>)
        ELSE _SparsePosDefSolver_init(A)
    ELSE _DensePosDefSolver_init(A)

\* The Cholesky backend for A: lines 312-320 and 579-587
CholBackend_init(A) ==
    IF issparse(A) THEN
        IF ~HAS_CHOLMOD THEN Warned(_DensePosDefSolver_init(as_array(A)))
        ELSE _SparsePosDefSolver_init(A)
    ELSE _DensePosDefSolver_init(A)

\* ----------------------------------------------------------------- Solver

\* A variant that stores the identity it should have solved against.
Solver_init_unsolved_inverse(A0, build_inverse) ==
    LET A == as_sparse_or_array(A0)
    IN  Bind(IF issparse(A) THEN _SparseSolver_init(A) ELSE _DenseSolver_init(A),
             LAMBDA sv :
        Ok([cls |-> "Solver", _solver |-> sv,
            _inverse |-> IF build_inverse THEN Eye(NRows(A)) ELSE None,
            n |-> NRows(A)], <<>>))

Solver_init(A0, build_inverse) ==
    LET A == as_sparse_or_array(A0)
    IN  Bind(IF issparse(A) THEN _SparseSolver_init(A) ELSE _DenseSolver_init(A),
             LAMBDA sv :
        Bind(IF build_inverse THEN LUBackendSolve(sv, Eye(NRows(A))) ELSE Ok(None, <<>>),
             LAMBDA inv :
        Ok([cls |-> "Solver", _solver |-> sv, _inverse |-> inv, n |-> NRows(A)], <<>>)))

\* A variant that picks the routine from the right-hand side it is given.
Solver_solve_by_rhs(self, b0) ==
    IF issparse(b0) THEN _SparseSolver_solve(self._solver, as_array(b0))
    ELSE _DenseSolver_solve(self._solver, as_array(b0))

Solver_solve(self, b0) ==
    LET b == as_array(b0)
    IN  IF self._inverse # None THEN
            IF DotOk(self._inverse, b) THEN Ok(Dot(self._inverse, b), <<>>)
            ELSE Raise("ValueError", <<>>)
        ELSE LUBackendSolve(self._solver, b)

\* ----------------------------------------------------------- PosDefSolver

PosDefSolver_init(A0, build_inverse) ==
    LET A == as_sparse_or_array(A0)
    IN  Bind(CholBackend_init(A), LAMBDA sv :
        Bind(IF build_inverse THEN CholBackendSolve(sv, Eye(NRows(A))) ELSE Ok(None, <<>>),
             LAMBDA inv :
        Ok([cls |-> "PosDefSolver", _solver |-> sv, _inverse |-> inv, n |-> NRows(A)],
           <<>>)))

\* A variant that goes to the factors although the inverse is cached.
PosDefSolver_solve_ignoring_inverse(self, b0) ==
    CholBackendSolve(self._solver, as_array(b0))

PosDefSolver_solve(self, b0) ==
    LET b == as_array(b0)
    IN  IF self._inverse # None THEN
            IF DotOk(self._inverse, b) THEN Ok(Dot(self._inverse, b), <<>>)
            ELSE Raise("ValueError", <<>>)
        ELSE CholBackendSolve(self._solver, b)

PosDefSolver_solve_L(self, b0) ==
    LET b == as_array(b0)
    IN  IF self._solver.type = "_SparsePosDefSolver"
        THEN _SparsePosDefSolver_solve_L(self._solver, b)
        ELSE _DensePosDefSolver_solve_L(self._solver, b)

PosDefSolver_L(self) ==
    IF self._solver.type = "_SparsePosDefSolver"
    THEN _SparsePosDefSolver_L(self._solver)
    ELSE _DensePosDefSolver_L(self._solver)

PosDefSolver_log_det(self) ==
    IF self._solver.type = "_SparsePosDefSolver"
    THEN _SparsePosDefSolver_log_det(self._solver)
    ELSE _DensePosDefSolver_log_det(self._solver)

\* The exceptions the except clause of is_positive_definite names. Its
\* expression is evaluated when an exception reaches it, and the name
\* cholmod is bound only when the import at line 19 succeeded.
Caught == {"LinAlgError", "CholmodNotPositiveDefiniteError"}

is_positive_definite(A) ==
    LET r == Bind(PosDefSolver_init(A, FALSE), LAMBDA sv : PosDefSolver_L(sv))
    IN  IF ~Raised(r) THEN [r EXCEPT !.val = TRUE]
        ELSE IF ~HAS_CHOLMOD THEN [r EXCEPT !.exc = "NameError"]
        ELSE IF r.exc \in Caught THEN [r EXCEPT !.exc = "none", !.val = FALSE]
        ELSE r

\* ------------------------------------------------------ PartitionedSolver

\* np.block([[A, B], [C, D]]) and sp.bmat([[A, B], [C, D]]): the rows of A
\* beside those of B above the rows of C beside those of D.
BlockRows(A, B, C, D) ==
    [i \in 1..(NRows(A) + NRows(C)) |->
        IF i <= NRows(A) THEN A.rows[i] \o B.rows[i]
        ELSE C.rows[i - NRows(A)] \o D.rows[i - NRows(A)]]

\* A variant that has the operands of the comparison the wrong way round.
FewerColumnsThanRows(n, p) == p < n

\* if n < p: B has fewer rows than columns
FewerRowsThanColumns(n, p) == n < p

PartitionedSolver_init(A0, B0, build_inverse) ==
    LET A == as_sparse_or_array(A0)
        B == as_array(B0)
        n == B.shape[1]
        p == B.shape[2]
        C == Obj(A.rep, <<n + p, n + p>>,
                 BlockRows(A, B, Transpose(B), Zeros(<<p, p>>)), A.bad)
    IN  IF FewerRowsThanColumns(n, p) THEN Raise("LinAlgError", <<>>)
        ELSE
        Bind(IF issparse(A) THEN _SparseSolver_init(C) ELSE _DenseSolver_init(C),
             LAMBDA sv :
        Bind(IF build_inverse THEN LUBackendSolve(sv, Eye(n + p)) ELSE Ok(None, <<>>),
             LAMBDA inv :
        Ok([cls |-> "PartitionedSolver", _solver |-> sv, _inverse |-> inv,
            n |-> n, p |-> p], <<>>)))

\* The branch of both partitioned solve methods that uses the cached
\* inverse: lines 486-489 and 624-629.
InverseSolve(self, a, b0) ==
    LET left == ColSlice(self._inverse, 1, self.n)
        right == ColSlice(self._inverse, self.n + 1, self.n + self.p)
    IN  IF ~DotOk(left, a) THEN Raise("ValueError", <<>>)
        ELSE IF b0 = None THEN Ok(Dot(left, a), <<>>)
        ELSE IF ~DotOk(right, as_array(b0)) THEN Raise("ValueError", <<>>)
        ELSE IF Dot(right, as_array(b0)).shape # Dot(left, a).shape
             THEN Raise("ValueError", <<>>)
        ELSE Ok(ArrAdd(Dot(left, a), Dot(right, as_array(b0))), <<>>)

\* A variant that splits at index p.
SplitAtP(self, xy) == <<Take(xy, self.p), Drop(xy, self.p)>>

\* x, y = xy[:self.n], xy[self.n:]
Split(self, xy) == <<Take(xy, self.n), Drop(xy, self.n)>>

PartitionedSolver_solve(self, a0, b0) ==
    LET a == as_array(a0)
    IN  IF self._inverse # None THEN
            Bind(InverseSolve(self, a, b0), LAMBDA xy : Ok(Split(self, xy), <<>>))
        ELSE
            LET b == IF b0 = None THEN Zeros(<<self.p>> \o Tail(a.shape))
                     ELSE as_array(b0)
            IN  IF Tail(a.shape) # Tail(b.shape) THEN Raise("ValueError", <<>>)
                ELSE Bind(LUBackendSolve(self._solver, Concat(a, b)),
                          LAMBDA xy : Ok(Split(self, xy), <<>>))

\* ------------------------------------------------ PartitionedPosDefSolver

PartitionedPosDefSolver_init(A0, B0, build_inverse) ==
    LET A == as_sparse_or_array(A0)
        B == as_array(B0)
        n == B.shape[1]
        p == B.shape[2]
    IN  IF FewerRowsThanColumns(n, p) THEN Raise("LinAlgError", <<>>)
        ELSE
        Bind(CholBackend_init(A), LAMBDA asv :
        Bind(CholBackendSolve(asv, B), LAMBDA AiB :
        Bind(_DensePosDefSolver_init(Dot(Transpose(B), AiB)), LAMBDA ssv :
        Bind(IF ~build_inverse THEN Ok(None, <<>>)
             ELSE
             Bind(_DensePosDefSolver_solve(ssv, Eye(p)), LAMBDA Si :
             Bind(CholBackendSolve(asv, Eye(n)), LAMBDA Ai :
                 LET E == ArrNeg(Si)
                     D == Dot(AiB, ArrNeg(E))
                     C == ArrSub(Ai, Dot(D, Transpose(AiB)))
                 IN  Ok(Arr(<<n + p, n + p>>, BlockRows(C, D, Transpose(D), E)),
                        <<>>))),
             LAMBDA inv :
        Ok([cls |-> "PartitionedPosDefSolver", _A_solver |-> asv, _AiB |-> AiB,
            _BtAiB_solver |-> ssv, _inverse |-> inv, n |-> n, p |-> p], <<>>)))))

PartitionedPosDefSolver_solve(self, a0, b0) ==
    LET a == as_array(a0)
    IN  IF self._inverse # None THEN
            Bind(InverseSolve(self, a, b0), LAMBDA xy : Ok(Split(self, xy), <<>>))
        ELSE IF ~DotOk(Transpose(self._AiB), a) THEN Raise("ValueError", <<>>)
        ELSE
        Bind(_DensePosDefSolver_solve(self._BtAiB_solver, Dot(Transpose(self._AiB), a)),
             LAMBDA Dta :
        Bind(CholBackendSolve(self._A_solver, a), LAMBDA Aia :
            LET Ca == ArrSub(Aia, Dot(self._AiB, Dta))
            IN  IF b0 = None THEN Ok(<<Ca, Dta>>, <<>>)
                ELSE
                Bind(_DensePosDefSolver_solve(self._BtAiB_solver, as_array(b0)),
                     LAMBDA Sib :
                    LET Eb == ArrNeg(Sib)
                    IN  IF ~DotOk(self._AiB, Eb) \/ Eb.shape # Dta.shape
                        THEN Raise("ValueError", <<>>)
                        ELSE Ok(<<ArrAdd(Ca, ArrNeg(Dot(self._AiB, Eb))),
                                  ArrAdd(Dta, Eb)>>, <<>>))))

\* ------------------------------------------------------------ GMRESSolver

\* sp.csc_matrix(A): a csc matrix over the same data arrays when A is one
\* already, a converted copy otherwise.
csc_matrix(A) == [A EXCEPT !.rep = "csc"]
SharesData(A0) == A0.rep = "csc"

\* sum over k in 1..m of u[k]^2
RECURSIVE SumSq(_, _)
SumSq(u, m) == IF m = 0 THEN Zero ELSE RAdd(SumSq(u, m - 1), RMul(u[m], u[m]))

\* rbf.sputils.row_norms: the Euclidean norm of each row
row_norms(A) == [i \in 1..NRows(A) |-> RSqrt(SumSq(A.rows[i], Len(A.rows[i])))]

\* rbf.sputils.divide_rows: row i divided by x[i]
divide_rows(A, x) ==
    [A EXCEPT !.rows = [i \in 1..NRows(A) |->
        [k \in 1..Len(A.rows[i]) |-> RDiv(A.rows[i][k], x[i])]]]

GMRESSolver_init(A0, normalize_inplace) ==
    LET A == csc_matrix(A0)
        n == row_norms(A)
        An == divide_rows(A, n)
        c == <<Call("spilu", NRows(An))>>
    IN  IF GaussSolve(An.rows, [i \in 1..NRows(An) |-> <<>>]) = Singular
        THEN Raise("RuntimeError", c)
        ELSE Ok([cls |-> "GMRESSolver", A |-> Arr(An.shape, An.rows),
                 M |-> [ilu |-> Arr(An.shape, An.rows)], n |-> n], c)

\* A variant that normalises in place whatever the flag says.
GMRESSolver_init_A0_always(A0, normalize_inplace) ==
    IF SharesData(A0) THEN divide_rows(A0, row_norms(csc_matrix(A0))) ELSE A0

\* The caller's matrix after GMRESSolver(A0, normalize_inplace=...): line 683
\* writes through the data arrays line 680 shares, line 685 writes a copy.
GMRESSolver_init_A0(A0, normalize_inplace) ==
    IF normalize_inplace /\ SharesData(A0)
    THEN divide_rows(A0, row_norms(csc_matrix(A0)))
    ELSE A0

\* The tolerances a caller passes: one GMRES attains within its iteration
\* cap, and one it does not attain.
Tols == {"attained", "unattained"}

\* The status spla.gmres returns: 0 when it converged to the tolerance, the
\* number of iterations (positive) when it did not. A zero right-hand side
\* is solved by the initial guess.
GmresInfo(rhs, tol) ==
    IF tol = "attained" \/ \A i \in 1..NRows(rhs) : rhs.rows[i][1] = Zero
    THEN 0 ELSE 1

\* b / self.n broadcasts a (rb,) array against the (n,) array of norms.
Broadcasts(rb, n) == rb = n \/ rb = 1 \/ n = 1

\* A variant that turns a nonzero status into an exception.
GMRESSolver_solve_raising(x, info, c) ==
    (IF info # 0 THEN Raise("RuntimeError", c) ELSE Ok(x, c)) @@ [info |-> info]

\* Lines 733-734: the status is logged and x alone is returned. The status
\* is kept beside the outcome as info; it is no part of the value.
GMRESSolver_solve_return(x, info, c) == Ok(x, c) @@ [info |-> info]

\* A variant that hands b to GMRES as it is, not divided by the norms.
GMRESSolver_solve_unscaled_rhs(self, b, tol) ==
    LET n == Len(self.n)
        rb == NRows(b)
        rhs == Arr(b.shape, b.rows)
        c == <<Call("gmres", n)>>
        info == GmresInfo(rhs, tol)
        x == IF info = 0 THEN Arr(rhs.shape, GaussSolve(self.A.rows, rhs.rows))
             ELSE Zeros(rhs.shape)
    IN  IF ~Broadcasts(rb, n) THEN Raise("ValueError", <<>>)
        ELSE IF rb # n THEN Raise("ValueError", c)
        ELSE GMRESSolver_solve_return(x, info, c)

\* x is the iterate GMRES stopped at: the solution when it converged, and
\* its initial guess of zeros stands for the iterate when it did not.
GMRESSolver_solve(self, b, tol) ==
    LET n == Len(self.n)
        rb == NRows(b)
        rhs == Arr(b.shape, [i \in 1..rb |-> <<RDiv(b.rows[i][1], self.n[i])>>])
        c == <<Call("gmres", n)>>
        info == GmresInfo(rhs, tol)
        x == IF info = 0 THEN Arr(rhs.shape, GaussSolve(self.A.rows, rhs.rows))
             ELSE Zeros(rhs.shape)
    IN  IF ~Broadcasts(rb, n) THEN Raise("ValueError", <<>>)
        ELSE IF rb # n THEN Raise("ValueError", c)
        ELSE GMRESSolver_solve_return(x, info, c)

\* ----------------------------------------------------- the caller's inputs

Reps == {"array", "csc", "csr"}

\* diag(d) as rows
DiagRows(d) ==
    [i \in 1..Len(d) |-> [k \in 1..Len(d) |-> IF i = k THEN FromInt(d[i]) ELSE Zero]]

\* The (n, p) matrix with e on its diagonal as rows
OffRows(n, p, e) ==
    [i \in 1..n |-> [k \in 1..p |-> IF i = k THEN FromInt(e[i]) ELSE Zero]]

Min(a, b) == IF a < b THEN a ELSE b

\* The square matrices A a caller passes to a constructor.
SqMats ==
    UNION {{Obj(rep, <<n, n>>, DiagRows(d), bad) :
               rep \in Reps, bad \in BOOLEAN, d \in [1..n -> DiagVals]} : n \in 0..MaxN}

\* The matrices B a caller passes beside an (n, n) matrix A: (n, p) with
\* p up to n + 1.
OffMats(n) ==
    UNION {{Obj(rep, <<n, p>>, OffRows(n, p, e), FALSE) :
               rep \in {"array", "csr"}, e \in [1..Min(n, p) -> OffVals]} :
           p \in 0..(n + 1)}

\* The matrices passed to GMRESSolver: well formed, without a zero row.
GMRESMats ==
    {A \in SqMats : /\ ~A.bad
                    /\ NRows(A) > 0
                    /\ \A i \in 1..NRows(A) : A.rows[i][i] # Zero}

\* The right-hand sides with r rows: a sparse one is 2-dimensional.
RhsReps(t) == IF Len(t) = 1 THEN {"array", "csr"} ELSE {"array"}
RhsRows(r, t) == [1..r -> [1..Prod(t) -> {FromInt(v) : v \in RhsVals}]]
Rhs(r) ==
    UNION {{Obj(rep, <<r>> \o t, rows, FALSE) :
               rep \in RhsReps(t), rows \in RhsRows(r, t)} : t \in TrailShapes}

\* The right-hand sides passed to a solver of dimension n: of n rows, or
\* without rows.
RhsFor(n) == Rhs(0) \cup Rhs(n)

\* The right-hand sides of more than two dimensions passed to solve_L: of
\* shape (n, 1, 1).
DeepTrailShapes == {<<1, 1>>}
DeepRhsFor(n) ==
    UNION {{Obj("array", <<n>> \o t, rows, FALSE) : rows \in RhsRows(n, t)} :
           t \in DeepTrailShapes}

\* The second right-hand side passed beside a: omitted, or an array with
\* the trailing shape of a and p rows or none.
SecondRhsFor(p, a) ==
    {None} \cup UNION {{Obj("array", <<r>> \o Tail(a.shape), rows, FALSE) :
                           rows \in RhsRows(r, Tail(a.shape))} : r \in {0, p}}

\* The right-hand sides passed to GMRESSolver.solve: (n,) arrays.
GMRESRhsFor(n) == {b \in RhsFor(n) : b.rep = "array" /\ Len(b.shape) = 1}

\* ================================================================ rbf/gpr.py
\*
\* GaussianProcess instances live in the pool gps; a closure refers to the
\* processes it captured by their place in the pool.  The mean and covariance
\* functions the caller hands to GaussianProcess(...) are opaque: the model
\* records each evaluation of one in the calls of the operation, and leaves
\* the numbers they return out.

\* A Python int held where None may stand instead (GaussianProcess.dim).
int(k) == [int |-> k]
\* A tuple of ints passed by the caller (diff, d, obs_diff).
Tuple(t) == [tuple |-> t]
\* np.asarray(v, dtype=int): a (k,) array of a tuple of length k; an array
\* comes back as it is.
np_asarray(v) ==
    IF "tuple" \in DOMAIN v THEN [shape |-> <<Len(v.tuple)>>, data |-> v.tuple] ELSE v
\* np.zeros(k, dtype=int)
np_zeros(k) == [shape |-> <<k>>, data |-> [j \in 1..k |-> 0]]
\* An (N, D) float array of positions, every point at the origin.
Points(N, D) == [shape |-> <<N, D>>, data |-> [j \in 1..(N * D) |-> 0]]
\* a.tobytes(): the entries in memory order, without the shape.
tobytes(a) == a.data

RECURSIVE sum(_)
\* sum(d)
sum(t) == IF t = <<>> THEN 0 ELSE Head(t) + sum(Tail(t))
\* max(a, b)
max(a, b) == IF a >= b THEN a ELSE b

\* diff + d on two 1-D integer arrays: numpy broadcasts a length of one, and
\* raises ValueError for any other pair of different lengths.
CanBroadcast(a, b) ==
    a.shape[1] = b.shape[1] \/ a.shape[1] = 1 \/ b.shape[1] = 1
Plus(a, b) ==
    LET k == IF a.shape[1] = 1 THEN b.shape[1] ELSE a.shape[1]
        At(v, j) == IF v.shape[1] = 1 THEN v.data[1] ELSE v.data[j]
    IN  [shape |-> <<k>>, data |-> [j \in 1..k |-> At(a, j) + At(b, j)]]

\* _Memoize.cache_size
cache_size == 1000
\* _Memoize(fin): the cache is an OrderedDict, modelled by its entries
\* [key, output] in insertion order and the flag ordered; no function is linked
_Memoize(fin) ==
    [fin |-> fin, cache |-> <<>>, ordered |-> TRUE, links |-> <<>>,
     cache_size |-> cache_size]
\* key = tuple(a.tobytes() for a in args)
Key(a) == [k \in 1..Len(a) |-> tobytes(a[k])]
\* A variant of the membership test that finds no key.
InCache_never(f, key) == FALSE
\* key in self.cache
InCache(f, key) == \E k \in 1..Len(f.cache) : f.cache[k].key = key
\* self.cache[key]
Lookup(f, key) ==
    f.cache[CHOOSE k \in 1..Len(f.cache) : f.cache[k].key = key].output
\* The array a function returns for the arguments a: its value is a function
\* of who computed it and of the arguments, id names the object, and numpy
\* hands out writeable arrays.
Output(gp, which, a) ==
    [data |-> [gp |-> gp, which |-> which, at |-> a, written |-> FALSE],
     id |-> [gp |-> gp, which |-> which, key |-> Key(a)],
     writeable |-> TRUE]
\* output.flags['WRITEABLE'] = False
ReadOnly(output) == [output EXCEPT !.writeable = FALSE]
\* A variant that hands out the object itself.
np_array_nocopy(out) == out
\* np.array(out, copy=True): a new writeable object with the same value
np_array_copy(out) == [out EXCEPT !.id = None, !.writeable = TRUE]
\* self.cache.popitem(0): OrderedDict.popitem(last=0) removes the oldest entry
\* and raises KeyError on an empty cache; dict.popitem takes no argument.
popitem(f) ==
    IF ~f.ordered
    THEN [f |-> f, exc |-> "TypeError"]
    ELSE IF f.cache = <<>>
    THEN [f |-> f, exc |-> "KeyError"]
    ELSE [f |-> [f EXCEPT !.cache = Tail(@)], exc |-> "none"]
\* The end of a missing __call__, after fin returned output: a full cache
\* loses its oldest entry and the output is returned without being stored.
Stored(f, key, output) ==
    IF Len(f.cache) = f.cache_size
    THEN popitem(f)
    ELSE [f |-> [f EXCEPT !.cache = Append(@, [key |-> key, output |-> output])],
          exc |-> "none"]
\* _Memoize.set_cache_size: the while loop, after self.cache_size = val
RECURSIVE Shrunk(_)
Shrunk(f) ==
    IF Len(f.cache) > f.cache_size
    THEN LET r == popitem(f)
         IN  IF r.exc # "none" THEN r ELSE Shrunk(r.f)
    ELSE [f |-> f, exc |-> "none"]
set_cache_size(f, val) == Shrunk([f EXCEPT !.cache_size = val])
\* self.cache = {} of _Memoize.clear_cache: a plain dict
Cleared(f) == [f EXCEPT !.cache = <<>>, !.ordered = FALSE]

\* The running state S of an operation holds the pool, the _mvmonos cache, the
\* exception raised so far, the opaque functions evaluated, and the value.
RaisedIn(S, exc) == [S EXCEPT !.exc = exc]
Returned(S, v) == [S EXCEPT !.val = v]
Evaluated(S, fn, who) == [S EXCEPT !.calls = Append(@, Call(fn, who))]

\* A _Memoize instance is named by where it lives: the function which of
\* process gp of the pool, or the module's _mvmonos (gp = 0).
Memo(gp, which) == [gp |-> gp, which |-> which]
Deref(S, ref) == IF ref.gp = 0 THEN S.mv ELSE S.gps[ref.gp][ref.which]
Assign(S, ref, f) ==
    IF ref.gp = 0 THEN [S EXCEPT !.mv = f] ELSE [S EXCEPT !.gps[ref.gp][ref.which] = f]
\* _Memoize.clear_cache: the instance's cache, then every linked instance
RECURSIVE clear_cache(_, _)
RECURSIVE ClearLinks(_, _)
ClearLinks(S, links) ==
    IF links = <<>> THEN S ELSE ClearLinks(clear_cache(S, Head(links)), Tail(links))
clear_cache(S, ref) ==
    ClearLinks(Assign(S, ref, Cleared(Deref(S, ref))), Deref(S, ref).links)
\* _Memoize.link_functions(a): a has clear_cache, so it is appended
link_functions(S, ref, a) ==
    Assign(S, ref, [Deref(S, ref) EXCEPT !.links = Append(@, a)])

\* out[...] = v by the caller: numpy raises ValueError on a read-only array;
\* otherwise the object changes, and so does every cache entry that is it.
Written(out) == [out EXCEPT !.data.written = TRUE]
WrittenIn(f, id) ==
    IF "cache" \notin DOMAIN f
    THEN f
    ELSE LET c == f.cache
         IN  [f EXCEPT !.cache = [k \in DOMAIN c |->
                 IF c[k].output.id = id
                 THEN [c[k] EXCEPT !.output = Written(c[k].output)]
                 ELSE c[k]]]
setitem(S, out) ==
    IF ~out.writeable
    THEN RaisedIn(S, "ValueError")
    ELSE LET T == IF out.id = None
                  THEN S
                  ELSE [S EXCEPT !.mv = WrittenIn(S.mv, out.id),
                                 !.gps = [i \in DOMAIN S.gps |->
                                     [S.gps[i] EXCEPT !._mean = WrittenIn(@, out.id),
                                                      !._covariance = WrittenIn(@, out.id)]]]
         IN  Returned(T, Written(out))

\* One statement of a closure's body.
GpCall(gp, which, a) == [stmt |-> "gp", gp |-> gp, which |-> which, a |-> a]
MvCall(a) == [stmt |-> "_mvmonos", gp |-> 0, which |-> "", a |-> a]
RaiseStmt(exc) == [stmt |-> "raise", gp |-> 0, which |-> exc, a |-> <<>>]

\* The closures mean and covariance a factory returns: each a _Memoize of
\* its own, both over the objects the factory was given.
_add_factory(gp1, gp2) ==
    LET fin == [factory |-> "_add_factory", gp1 |-> gp1, gp2 |-> gp2]
    IN  [mean |-> _Memoize(fin), covariance |-> _Memoize(fin)]
_subtract_factory(gp1, gp2) ==
    LET fin == [factory |-> "_subtract_factory", gp1 |-> gp1, gp2 |-> gp2]
    IN  [mean |-> _Memoize(fin), covariance |-> _Memoize(fin)]
_scale_factory(gp, c) ==
    LET fin == [factory |-> "_scale_factory", gp |-> gp, c |-> c]
    IN  [mean |-> _Memoize(fin), covariance |-> _Memoize(fin)]
_differentiate_factory(gp, d) ==
    LET fin == [factory |-> "_differentiate_factory", gp |-> gp, d |-> d]
    IN  [mean |-> _Memoize(fin), covariance |-> _Memoize(fin)]

\* rbf.poly.powers(order, dim): an array the model identifies by its arguments
powers(order, dim) == [shape |-> <<>>, data |-> <<"powers", order, dim>>]

\* The statements of _condition_factory(gp, y, d, sigma, obs_diff) before its
\* closures are made; K_y is made of what the caller's covariance function
\* returned, and invertible says whether np.linalg.inv accepts it.
_condition_factory_init(gp, order, y, obs_diff, invertible) ==
    <<GpCall(gp, "_covariance", <<y, y, obs_diff, obs_diff>>),
      MvCall(<<y, powers(order, y.shape[2]), obs_diff>>)>>
    \o (IF invertible THEN <<>> ELSE <<RaiseStmt("LinAlgError")>>)
    \o <<GpCall(gp, "_mean", <<y, obs_diff>>)>>
_condition_factory(gp, order, y, obs_diff) ==
    LET fin == [factory |-> "_condition_factory", gp |-> gp, y |-> y,
                obs_diff |-> obs_diff, powers |-> powers(order, y.shape[2])]
    IN  [mean |-> _Memoize(fin), covariance |-> _Memoize(fin)]

\* The body of a closure, by the factory that made it: the calls it makes of
\* the captured processes and of _mvmonos, in order (the arithmetic on what
\* they return is left out).  which is "_mean" for mean(x, diff), a = <<x,
\* diff>>, and "_covariance" for covariance(x1, x2, diff1, diff2).
Body(fin, which, a) ==
    CASE fin.factory \in {"_add_factory", "_subtract_factory"} ->
             <<GpCall(fin.gp1, which, a), GpCall(fin.gp2, which, a)>>
      [] fin.factory = "_scale_factory" ->
             <<GpCall(fin.gp, which, a)>>
      [] fin.factory = "_differentiate_factory" /\ which = "_mean" ->
             IF CanBroadcast(a[2], fin.d)
             THEN <<GpCall(fin.gp, which, <<a[1], Plus(a[2], fin.d)>>)>>
             ELSE <<RaiseStmt("ValueError")>>
      [] fin.factory = "_differentiate_factory" /\ which = "_covariance" ->
             IF CanBroadcast(a[3], fin.d) /\ CanBroadcast(a[4], fin.d)
             THEN <<GpCall(fin.gp, which,
                           <<a[1], a[2], Plus(a[3], fin.d), Plus(a[4], fin.d)>>)>>
             ELSE <<RaiseStmt("ValueError")>>
      [] fin.factory = "_condition_factory" /\ which = "_mean" ->
             <<GpCall(fin.gp, "_covariance", <<a[1], fin.y, a[2], fin.obs_diff>>),
               MvCall(<<a[1], fin.powers, a[2]>>),
               GpCall(fin.gp, "_mean", <<a[1], a[2]>>)>>
      [] fin.factory = "_condition_factory" /\ which = "_covariance" ->
             <<GpCall(fin.gp, "_covariance", <<a[1], a[2], a[3], a[4]>>),
               GpCall(fin.gp, "_covariance", <<a[1], fin.y, a[3], fin.obs_diff>>),
               GpCall(fin.gp, "_covariance", <<a[2], fin.y, a[4], fin.obs_diff>>),
               MvCall(<<a[1], fin.powers, a[3]>>),
               MvCall(<<a[2], fin.powers, a[4]>>)>>

\* _mvmonos(*a): rbf.poly.mvmonos behind the module's own _Memoize
_mvmonos_call(S, a) ==
    IF InCache(S.mv, Key(a))
    THEN Returned(S, Lookup(S.mv, Key(a)))
    ELSE LET T == Evaluated(S, "rbf.poly.mvmonos", 0)
             output == ReadOnly(Output(0, "rbf.poly.mvmonos", a))
             r == Stored(T.mv, Key(a), output)
         IN  IF r.exc # "none"
             THEN RaisedIn([T EXCEPT !.mv = r.f], r.exc)
             ELSE Returned([T EXCEPT !.mv = r.f], output)

RECURSIVE Memoize_call(_, _, _, _)
RECURSIVE Statements(_, _)
\* The statements of a body in order, up to the first that raises.
Statements(S, body) ==
    IF body = <<>> \/ S.exc # "none"
    THEN S
    ELSE LET s == Head(body)
             T == CASE s.stmt = "gp" -> Memoize_call(S, s.gp, s.which, s.a)
                    [] s.stmt = "_mvmonos" -> _mvmonos_call(S, s.a)
                    [] s.stmt = "raise" -> RaisedIn(S, s.which)
         IN  Statements(T, Tail(body))
\* gps[gp]._mean(*a) or gps[gp]._covariance(*a): the caller's function is
\* evaluated; a _Memoize evaluates fin unless the key is in its cache
\* (_Memoize.__call__).
Memoize_call(S, gp, which, a) ==
    LET f == S.gps[gp][which]
    IN  IF "cache" \notin DOMAIN f
        THEN Returned(Evaluated(S, which, gp), Output(gp, which, a))
        ELSE IF InCache(f, Key(a))
        THEN Returned(S, Lookup(f, Key(a)))
        ELSE LET T == Statements(S, Body(f.fin, which, a))
                 output == ReadOnly(Output(gp, which, a))
                 r == Stored(T.gps[gp][which], Key(a), output)
                 U == [T EXCEPT !.gps[gp][which] = r.f]
             IN  IF T.exc # "none"
                 THEN T
                 ELSE IF r.exc # "none"
                 THEN RaisedIn(U, r.exc)
                 ELSE Returned(U, output)

\* GaussianProcess.__init__
GaussianProcess(mean_, covariance_, order, dim) ==
    [_mean |-> mean_, _covariance |-> covariance_, order |-> order, dim |-> dim]

\* GaussianProcess.add
add(S, self, other) ==
    LET u == S.gps[self]
        v == S.gps[other]
    IN  IF u.dim # None /\ v.dim # None /\ u.dim # v.dim
        THEN RaisedIn(S, "ValueError")
        ELSE LET f == _add_factory(self, other)
             IN  Returned(S, GaussianProcess(f.mean, f.covariance,
                                            max(u.order, v.order), None))

\* GaussianProcess.subtract
subtract(S, self, other) ==
    LET u == S.gps[self]
        v == S.gps[other]
    IN  IF u.dim # None /\ v.dim # None /\ u.dim # v.dim
        THEN RaisedIn(S, "ValueError")
        ELSE LET f == _subtract_factory(self, other)
             IN  Returned(S, GaussianProcess(f.mean, f.covariance,
                                            max(u.order, v.order), None))

\* GaussianProcess.scale
scale(S, self, c) ==
    LET u == S.gps[self]
        f == _scale_factory(self, c)
        order == IF c # 0 THEN u.order ELSE -1
    IN  Returned(S, GaussianProcess(f.mean, f.covariance, order, None))

\* A variant of differentiate that does not stop the order at -1.
differentiate_unclamped(S, self, d0) ==
    LET u == S.gps[self]
        d == np_asarray(d0)
        dim == d.shape[1]
    IN  IF u.dim # None /\ u.dim # int(dim)
        THEN RaisedIn(S, "ValueError")
        ELSE LET f == _differentiate_factory(self, d)
             IN  Returned(S, GaussianProcess(f.mean, f.covariance,
                                            u.order - sum(d.data), int(dim)))

\* GaussianProcess.differentiate
differentiate(S, self, d0) ==
    LET u == S.gps[self]
        d == np_asarray(d0)
        dim == d.shape[1]
    IN  IF u.dim # None /\ u.dim # int(dim)
        THEN RaisedIn(S, "ValueError")
        ELSE LET f == _differentiate_factory(self, d)
             IN  Returned(S, GaussianProcess(f.mean, f.covariance,
                                            max(u.order - sum(d.data), -1), int(dim)))

\* GaussianProcess.condition (sigma left at None)
condition(S, self, y, obs_diff0, invertible) ==
    LET u == S.gps[self]
        dim == y.shape[2]
        obs_diff == IF obs_diff0 = None THEN np_zeros(dim) ELSE np_asarray(obs_diff0)
    IN  IF u.dim # None /\ u.dim # int(dim)
        THEN RaisedIn(S, "ValueError")
        ELSE IF obs_diff.shape[1] # dim
        THEN RaisedIn(S, "ValueError")
        ELSE LET T == Statements(Evaluated(S, "rbf.poly.powers", 0),
                                 _condition_factory_init(self, u.order, y, obs_diff,
                                                         invertible))
                 f == _condition_factory(self, u.order, y, obs_diff)
             IN  IF T.exc # "none"
                 THEN T
                 ELSE Returned(T, GaussianProcess(f.mean, f.covariance, -1, int(dim)))

\* A variant of mean that evaluates the function before it checks x and diff.
mean_checking_late(S, self, x, diff0) ==
    LET u == S.gps[self]
        diff == IF diff0 = None THEN np_zeros(x.shape[2]) ELSE np_asarray(diff0)
        T == Memoize_call(S, self, "_mean", <<x, diff>>)
    IN  IF T.exc # "none"
        THEN T
        ELSE IF u.dim # None /\ int(x.shape[2]) # u.dim
        THEN RaisedIn(T, "ValueError")
        ELSE IF u.dim # None /\ int(diff.shape[1]) # u.dim
        THEN RaisedIn(T, "ValueError")
        ELSE Returned(T, np_array_copy(T.val))

\* GaussianProcess.mean: out = self._mean(x, diff), then a copy of out
mean(S, self, x, diff0) ==
    LET u == S.gps[self]
        diff == IF diff0 = None THEN np_zeros(x.shape[2]) ELSE np_asarray(diff0)
    IN  IF u.dim # None /\ int(x.shape[2]) # u.dim
        THEN RaisedIn(S, "ValueError")
        ELSE IF u.dim # None /\ int(diff.shape[1]) # u.dim
        THEN RaisedIn(S, "ValueError")
        ELSE LET T == Memoize_call(S, self, "_mean", <<x, diff>>)
             IN  IF T.exc # "none"
                 THEN T
                 ELSE Returned(T, np_array_copy(T.val))

\* GaussianProcess.covariance: out = self._covariance(...), then a copy of out
covariance(S, self, x1, x2, diff10, diff20) ==
    LET u == S.gps[self]
        diff1 == IF diff10 = None THEN np_zeros(x1.shape[2]) ELSE np_asarray(diff10)
        diff2 == IF diff20 = None THEN np_zeros(x2.shape[2]) ELSE np_asarray(diff20)
    IN  IF u.dim # None /\ int(x1.shape[2]) # u.dim
        THEN RaisedIn(S, "ValueError")
        ELSE IF u.dim # None /\ int(x2.shape[2]) # u.dim
        THEN RaisedIn(S, "ValueError")
        ELSE IF u.dim # None /\ int(diff1.shape[1]) # u.dim
        THEN RaisedIn(S, "ValueError")
        ELSE IF u.dim # None /\ int(diff2.shape[1]) # u.dim
        THEN RaisedIn(S, "ValueError")
        ELSE LET T == Memoize_call(S, self, "_covariance", <<x1, x2, diff1, diff2>>)
             IN  IF T.exc # "none"
                 THEN T
                 ELSE Returned(T, np_array_copy(T.val))

\* ------------------------------------------------- the caller's processes

\* Most processes the caller holds at a time.
MaxGPs == 2
\* order and dim of the processes the caller makes of its own functions
Orders == {-1, 1}
Dims == {None, int(1)}
\* c of scale, d of differentiate
Scales == {0, 2}
Derivatives == {Tuple(<<1>>), Tuple(<<1, 1>>)}
\* x of mean and covariance, y of condition: one point of 1 or 2 columns
Positions == {Points(1, 1), Points(1, 2)}
\* diff of mean and covariance, obs_diff of condition
Diffs == {None, Tuple(<<0>>), Tuple(<<0, 0>>)}

\* ---------------------------------------------------------------- actions

\* The record of a call: its name and its keyword argument (build_inverse,
\* normalize_inplace or tol; None when it takes none) beside what it came to.
Last(op, kw, r) == [op |-> op, kw |-> kw] @@ r

\* A variant in which a method fills an empty inverse cache on first use.
SelfAfterCachingInverse(self, op) ==
    IF "_inverse" \in DOMAIN self /\ self._inverse = None
    THEN [self EXCEPT !._inverse = Eye(self.n)]
    ELSE self

\* The instance after a method call on it: none of solve, solve_L, L and
\* log_det assigns an attribute of self.
SelfAfter(self, op) == self

Init ==
    /\ HAS_CHOLMOD \in BOOLEAN
    /\ solver = None
    /\ args = <<>>
    /\ caller = <<>>
    /\ last = Last("import", None, Ok(None, <<>>))
    /\ gps = <<>>
    /\ _mvmonos = _Memoize([factory |-> "rbf.poly.mvmonos"])

\* The caller holds no instance and no result: after the import, and after
\* it let go of what the last call left.
Idle == solver = None /\ last.op \in {"import", "del"}

\* s = Cls(...): the instance when the constructor returned, None when it raised
Constructed(op, kw, r, passed, after) ==
    /\ solver' = IF Raised(r) THEN None ELSE r.val
    /\ args' = passed
    /\ caller' = after
    /\ last' = Last(op, kw, [r EXCEPT !.val = None])
    /\ UNCHANGED <<gps, _mvmonos>>

\* s.method(...)
Called(op, kw, r, passed, after) ==
    /\ solver' = SelfAfter(solver, op)
    /\ args' = passed
    /\ caller' = after
    /\ last' = Last(op, kw, r)
    /\ UNCHANGED <<gps, _mvmonos>>

NewSolver ==
    /\ Idle
    /\ UNCHANGED HAS_CHOLMOD
    /\ \E A \in SqMats, build_inverse \in BOOLEAN :
           Constructed("Solver", build_inverse, Solver_init(A, build_inverse),
                       <<A>>, <<A>>)

NewPosDefSolver ==
    /\ Idle
    /\ UNCHANGED HAS_CHOLMOD
    /\ \E A \in SqMats, build_inverse \in BOOLEAN :
           Constructed("PosDefSolver", build_inverse, PosDefSolver_init(A, build_inverse),
                       <<A>>, <<A>>)

NewPartitionedSolver ==
    /\ Idle
    /\ UNCHANGED HAS_CHOLMOD
    /\ \E A \in SqMats, build_inverse \in BOOLEAN :
           \E B \in OffMats(NRows(A)) :
               Constructed("PartitionedSolver", build_inverse,
                           PartitionedSolver_init(A, B, build_inverse),
                           <<A, B>>, <<A, B>>)

NewPartitionedPosDefSolver ==
    /\ Idle
    /\ UNCHANGED HAS_CHOLMOD
    /\ \E A \in SqMats, build_inverse \in BOOLEAN :
           \E B \in OffMats(NRows(A)) :
               Constructed("PartitionedPosDefSolver", build_inverse,
                           PartitionedPosDefSolver_init(A, B, build_inverse),
                           <<A, B>>, <<A, B>>)

NewGMRESSolver ==
    /\ Idle
    /\ UNCHANGED HAS_CHOLMOD
    /\ \E A \in GMRESMats, normalize_inplace \in BOOLEAN :
           Constructed("GMRESSolver", normalize_inplace,
                       GMRESSolver_init(A, normalize_inplace),
                       <<A>>, <<GMRESSolver_init_A0(A, normalize_inplace)>>)

IsA(cls) == solver # None /\ solver.cls = cls

SolverSolve ==
    /\ IsA("Solver")
    /\ UNCHANGED HAS_CHOLMOD
    /\ \E b \in RhsFor(solver.n) :
           Called("Solver.solve", None, Solver_solve(solver, b), <<b>>, <<b>>)

PosDefSolverSolve ==
    /\ IsA("PosDefSolver")
    /\ UNCHANGED HAS_CHOLMOD
    /\ \E b \in RhsFor(solver.n) :
           Called("PosDefSolver.solve", None, PosDefSolver_solve(solver, b), <<b>>, <<b>>)

PosDefSolverSolveL ==
    /\ IsA("PosDefSolver")
    /\ UNCHANGED HAS_CHOLMOD
    /\ \E b \in RhsFor(solver.n) \cup DeepRhsFor(solver.n) :
           Called("PosDefSolver.solve_L", None, PosDefSolver_solve_L(solver, b),
                  <<b>>, <<b>>)

PosDefSolverL ==
    /\ IsA("PosDefSolver")
    /\ UNCHANGED HAS_CHOLMOD
    /\ Called("PosDefSolver.L", None, PosDefSolver_L(solver), <<>>, <<>>)

PosDefSolverLogDet ==
    /\ IsA("PosDefSolver")
    /\ UNCHANGED HAS_CHOLMOD
    /\ Called("PosDefSolver.log_det", None, PosDefSolver_log_det(solver), <<>>, <<>>)

PartitionedSolverSolve ==
    /\ IsA("PartitionedSolver")
    /\ UNCHANGED HAS_CHOLMOD
    /\ \E a \in RhsFor(solver.n) :
           \E b \in SecondRhsFor(solver.p, a) :
               Called("PartitionedSolver.solve", None,
                      PartitionedSolver_solve(solver, a, b), <<a, b>>, <<a, b>>)

PartitionedPosDefSolverSolve ==
    /\ IsA("PartitionedPosDefSolver")
    /\ UNCHANGED HAS_CHOLMOD
    /\ \E a \in RhsFor(solver.n) :
           \E b \in SecondRhsFor(solver.p, a) :
               Called("PartitionedPosDefSolver.solve", None,
                      PartitionedPosDefSolver_solve(solver, a, b), <<a, b>>, <<a, b>>)

GMRESSolverSolve ==
    /\ IsA("GMRESSolver")
    /\ UNCHANGED HAS_CHOLMOD
    /\ \E b \in GMRESRhsFor(Len(solver.n)), tol \in Tols :
           Called("GMRESSolver.solve", tol, GMRESSolver_solve(solver, b, tol),
                  <<b>>, <<b>>)

\* is_positive_definite(A) builds a solver of its own and drops it.
IsPositiveDefinite ==
    /\ Idle
    /\ UNCHANGED <<solver, HAS_CHOLMOD, gps, _mvmonos>>
    /\ \E A \in SqMats :
           /\ last' = Last("is_positive_definite", None, is_positive_definite(A))
           /\ args' = <<A>>
           /\ caller' = <<A>>

\* del s: the caller lets go of the instance and of the last result.
Discard ==
    /\ last.op \notin {"import", "del"}
    /\ solver' = None
    /\ args' = <<>>
    /\ caller' = <<>>
    /\ last' = Last("del", None, Ok(None, <<>>))
    /\ UNCHANGED <<HAS_CHOLMOD, gps, _mvmonos>>

Next ==
    \/ NewSolver
    \/ NewPosDefSolver
    \/ NewPartitionedSolver
    \/ NewPartitionedPosDefSolver
    \/ NewGMRESSolver
    \/ SolverSolve
    \/ PosDefSolverSolve
    \/ PosDefSolverSolveL
    \/ PosDefSolverL
    \/ PosDefSolverLogDet
    \/ PartitionedSolverSolve
    \/ PartitionedPosDefSolverSolve
    \/ GMRESSolverSolve
    \/ IsPositiveDefinite
    \/ Discard

Spec == Init /\ [][Next]_vars

\* ------------------------------------------------- actions of rbf/gpr.py
\*
\* The caller makes processes one of another, evaluates one of them or is
\* refused one, and lets go of them all.

\* The operation begins on the pool and the _mvmonos cache as they are.
Start == [gps |-> gps, mv |-> _mvmonos, exc |-> "none", calls |-> <<>>, val |-> None]
\* The operation came to S: the pool and the caches are as it left them.
GPDone(op, S, passed) ==
    /\ gps' = S.gps
    /\ _mvmonos' = S.mv
    /\ args' = passed
    /\ last' = Last(op, None, [exc |-> S.exc,
                               val |-> IF S.exc = "none" THEN S.val ELSE None,
                               calls |-> S.calls, warns |-> 0])
    /\ UNCHANGED <<HAS_CHOLMOD, solver, caller>>
\* The operation returned a process: the caller keeps it while it holds fewer
\* than MaxGPs, and only looks at it otherwise.
GPMade(op, S, passed) ==
    GPDone(op,
           IF S.exc = "none" /\ Len(S.gps) < MaxGPs
           THEN [S EXCEPT !.gps = Append(@, S.val)]
           ELSE S,
           passed)

MakingOps ==
    {"GaussianProcess", "GaussianProcess.add", "GaussianProcess.subtract",
     "GaussianProcess.scale", "GaussianProcess.differentiate",
     "GaussianProcess.condition"}
EvaluatingOps == {"GaussianProcess.mean", "GaussianProcess.covariance"}
\* The caller has just been given a process that it keeps.
Made ==
    /\ last.op \in MakingOps
    /\ last.exc = "none"
    /\ gps # <<>>
    /\ gps[Len(gps)] = last.val
\* The caller goes on from the empty pool, or from a process it was just given
\* and keeps; after any other call it lets go of the pool.
Making == gps = <<>> \/ Made

NewGaussianProcess ==
    /\ Making
    /\ Len(gps) < MaxGPs
    /\ \E order \in Orders, dim \in Dims :
           GPMade("GaussianProcess",
                  Returned(Start, GaussianProcess([user |-> "mean"], [user |-> "covariance"],
                                                  order, dim)),
                  <<order, dim>>)

GPAdd ==
    /\ Making
    /\ \E self \in 1..Len(gps), other \in 1..Len(gps) :
           GPMade("GaussianProcess.add", add(Start, self, other), <<self, other>>)

GPSubtract ==
    /\ Making
    /\ \E self \in 1..Len(gps), other \in 1..Len(gps) :
           GPMade("GaussianProcess.subtract", subtract(Start, self, other),
                  <<self, other>>)

GPScale ==
    /\ Making
    /\ \E self \in 1..Len(gps), c \in Scales :
           GPMade("GaussianProcess.scale", scale(Start, self, c), <<self, c>>)

GPDifferentiate ==
    /\ Making
    /\ \E self \in 1..Len(gps), d \in Derivatives :
           GPMade("GaussianProcess.differentiate", differentiate(Start, self, d),
                  <<self, d>>)

GPCondition ==
    /\ Making
    /\ \E self \in 1..Len(gps), y \in Positions, obs_diff \in Diffs,
          invertible \in BOOLEAN :
           GPMade("GaussianProcess.condition",
                  condition(Start, self, y, obs_diff, invertible),
                  <<self, y, obs_diff>>)

GPMean ==
    /\ Made
    /\ \E self \in 1..Len(gps), x \in Positions, diff \in Diffs :
           GPDone("GaussianProcess.mean", mean(Start, self, x, diff),
                  <<self, x, diff>>)

GPCovariance ==
    /\ Made
    /\ \E self \in 1..Len(gps), x1 \in Positions, x2 \in Positions,
          diff1 \in Diffs, diff2 \in Diffs :
           GPDone("GaussianProcess.covariance",
                  covariance(Start, self, x1, x2, diff1, diff2),
                  <<self, x1, x2, diff1, diff2>>)

\* del of every process, and _mvmonos.clear_cache()
GPForget ==
    /\ gps # <<>>
    /\ gps' = <<>>
    /\ _mvmonos' = clear_cache(Start, Memo(0, "_mvmonos")).mv
    /\ args' = <<>>
    /\ last' = Last("del", None, Ok(None, <<>>))
    /\ UNCHANGED <<HAS_CHOLMOD, solver, caller>>

NextGP ==
    \/ NewGaussianProcess
    \/ GPAdd
    \/ GPSubtract
    \/ GPScale
    \/ GPDifferentiate
    \/ GPCondition
    \/ GPMean
    \/ GPCovariance
    \/ GPForget

SpecGP == Init /\ [][NextGP]_vars

\* ------------------------------------------------- actions on a _Memoize
\* The caller works on the memoized functions of one process: it made
\* u = GaussianProcess(mean, covariance) with order -1 and z = u.scale(2), and
\* it calls, resizes, clears and links z._mean, with z._covariance as the
\* function linked to it.

MaxCacheSize == 2
MaxLinks == 1
Under == GaussianProcess([user |-> "mean"], [user |-> "covariance"], -1, None)
Scaled ==
    scale([gps |-> <<Under>>, mv |-> _Memoize([factory |-> "rbf.poly.mvmonos"]),
           exc |-> "none", calls |-> <<>>, val |-> None], 1, 2).val
\* The arguments (x, diff) of the direct calls of z._mean
MemoArgs ==
    {<<Points(1, 1), np_zeros(1)>>, <<Points(1, 2), np_zeros(2)>>,
     <<Points(1, 1), np_asarray(Tuple(<<1>>))>>}
CacheSizes == 0..MaxCacheSize

InitMemo ==
    /\ HAS_CHOLMOD \in BOOLEAN
    /\ solver = None
    /\ args = <<>>
    /\ caller = <<>>
    /\ last = Last("GaussianProcess.scale", None,
                   [exc |-> "none", val |-> Scaled, calls |-> <<>>, warns |-> 0])
    /\ gps = <<Under, Scaled>>
    /\ _mvmonos = _Memoize([factory |-> "rbf.poly.mvmonos"])

\* z._mean(x, diff)
MemoCall ==
    /\ Len(gps) = 2
    /\ \E a \in MemoArgs :
           GPDone("_Memoize.__call__", Memoize_call(Start, 2, "_mean", a), a)

\* z.mean(x)
MemoMean ==
    /\ Len(gps) = 2
    /\ \E x \in Positions :
           GPDone("GaussianProcess.mean", mean(Start, 2, x, None), <<x, None>>)

\* z.covariance(x, x)
MemoCovariance ==
    /\ Len(gps) = 2
    /\ \E x \in {Points(1, 1)} :
           GPDone("GaussianProcess.covariance", covariance(Start, 2, x, x, None, None),
                  <<x, x, None, None>>)

\* z._mean.set_cache_size(val)
MemoSetCacheSize ==
    /\ Len(gps) = 2
    /\ \E val \in CacheSizes :
           LET r == set_cache_size(gps[2]._mean, val)
           IN  GPDone("_Memoize.set_cache_size",
                      RaisedIn(Assign(Start, Memo(2, "_mean"), r.f), r.exc),
                      <<int(val)>>)

\* z._mean.clear_cache()
MemoClearCache ==
    /\ Len(gps) = 2
    /\ GPDone("_Memoize.clear_cache", clear_cache(Start, Memo(2, "_mean")), <<>>)

\* z._mean.link_functions(z._covariance)
MemoLinkFunctions ==
    /\ Len(gps) = 2
    /\ Len(gps[2]._mean.links) < MaxLinks
    /\ GPDone("_Memoize.link_functions",
              link_functions(Start, Memo(2, "_mean"), Memo(2, "_covariance")),
              <<Memo(2, "_covariance")>>)

\* The caller writes into the array that the last call returned.
MemoWrite ==
    /\ last.op \in {"_Memoize.__call__", "GaussianProcess.mean",
                    "GaussianProcess.covariance"}
    /\ last.exc = "none"
    /\ GPDone("ndarray.__setitem__", setitem(Start, last.val), <<last.val>>)

NextMemo ==
    \/ MemoCall
    \/ MemoMean
    \/ MemoCovariance
    \/ MemoSetCacheSize
    \/ MemoClearCache
    \/ MemoLinkFunctions
    \/ MemoWrite

SpecMemo == InitMemo /\ [][NextMemo]_vars

\* ------------------------------------------------------------- properties

Constructors ==
    {"Solver", "PosDefSolver", "PartitionedSolver", "PartitionedPosDefSolver",
     "GMRESSolver"}

MethodOps ==
    {"Solver.solve", "PosDefSolver.solve", "PosDefSolver.solve_L", "PosDefSolver.L",
     "PosDefSolver.log_det", "PartitionedSolver.solve",
     "PartitionedPosDefSolver.solve", "GMRESSolver.solve"}

\* The external routines a call invoked
Fns(calls) == {calls[i].fn : i \in DOMAIN calls}

\* The routines of an LU backend, and the one its solve method invokes
LUFns(type) ==
    IF type = "_SparseSolver" THEN {"splu", "SuperLU.solve"} ELSE {"dgetrf", "dgetrs"}
LUSolveFn(type) == IF type = "_SparseSolver" THEN "SuperLU.solve" ELSE "dgetrs"

CholmodFns == {"cholmod.cholesky", "cholmod.solve_A", "cholmod.solve_L", "cholmod.L"}
FactorFns == {"dgetrf", "dpotrf", "splu", "cholmod.cholesky", "spilu"}
SolveFns == {"dgetrs", "dpotrs", "dtrtrs", "SuperLU.solve", "cholmod.solve_A",
             "cholmod.solve_L", "gmres"}

\* The last call was a partitioned constructor given a B with more columns
\* than rows.
WideB ==
    /\ last.op \in {"PartitionedSolver", "PartitionedPosDefSolver"}
    /\ args[2].shape[1] < args[2].shape[2]

C2_WideBFailsFirst ==
    WideB =>
        /\ last.exc = "LinAlgError"
        /\ last.calls = <<>>
        /\ last.warns = 0
        /\ solver = None

\* A sparse A without CHOLMOD, where the fallback warning would have come.
C2_Witness ==
    /\ WideB
    /\ last.op = "PartitionedPosDefSolver"
    /\ issparse(args[1])
    /\ ~HAS_CHOLMOD
    /\ last.kw = TRUE
    /\ last.exc = "LinAlgError"

\* C3: PosDefSolver, and PartitionedPosDefSolver for its A, given a sparse A
\* without CHOLMOD warns once, factors with the dense Cholesky routine and
\* raises nothing but what that routine reports; given a sparse A with
\* CHOLMOD it goes to the sparse Cholesky backend without a warning; given
\* a dense A it goes to the dense Cholesky backend without a warning.
C3_CholeskyBackendChoice ==
    (last.op \in {"PosDefSolver", "PartitionedPosDefSolver"} /\ ~WideB) =>
        LET A == args[1]
            n == NRows(A)
            backend == IF last.op = "PosDefSolver" THEN solver._solver
                       ELSE solver._A_solver
            dense ==
                /\ last.exc \in {"none", "LinAlgError", "ValueError"}
                /\ Fns(last.calls) \cap CholmodFns = {}
                /\ n > 0 => (last.calls # <<>> /\ last.calls[1] = Call("dpotrf", n))
                /\ solver # None => backend.type = "_DensePosDefSolver"
            sparse ==
                /\ n > 0 => (last.calls # <<>>
                             /\ last.calls[1] = Call("cholmod.cholesky", n))
                /\ solver # None => backend.type = "_SparsePosDefSolver"
        IN  IF issparse(A) /\ ~HAS_CHOLMOD THEN last.warns = 1 /\ dense
            ELSE IF issparse(A) THEN last.warns = 0 /\ sparse
            ELSE last.warns = 0 /\ dense

\* A sparse A factored by the dense routine after the warning.
C3_Witness ==
    /\ last.op = "PartitionedPosDefSolver"
    /\ issparse(args[1])
    /\ ~HAS_CHOLMOD
    /\ last.warns = 1
    /\ solver # None
    /\ solver.n = 1
    /\ solver._A_solver.type = "_DensePosDefSolver"

\* C4: for a well formed matrix A with entries, dense or sparse, with and
\* without CHOLMOD, is_positive_definite(A) returns and its value is
\* whether the Cholesky factorization of A exists.
C4_IsPositiveDefiniteReturnsBoolean ==
    (last.op = "is_positive_definite" /\ ~IsBad(args[1]) /\ NRows(args[1]) > 0) =>
        /\ last.exc = "none"
        /\ last.val = (Chol(args[1].rows) # NotPosDef)

\* C5 as stated: whenever GMRES reported a status, solve returned, and the
\* value it returned carries that status beside the solution.
C5_StatusReturnedBesideSolution ==
    (last.op = "GMRESSolver.solve" /\ "info" \in DOMAIN last) =>
        /\ last.exc = "none"
        /\ "info" \in DOMAIN last.val

\* C5 amended: whenever GMRES reported a status, zero or not, solve
\* returned, and the value it returned is the solution array alone, of the
\* shape of b.
C5_NoRaiseSolutionAlone ==
    (last.op = "GMRESSolver.solve" /\ "info" \in DOMAIN last) =>
        /\ last.exc = "none"
        /\ DOMAIN last.val = {"shape", "rows"}
        /\ last.val.shape = args[1].shape

\* A solve whose iteration did not converge.
C5_Witness ==
    /\ last.op = "GMRESSolver.solve"
    /\ "info" \in DOMAIN last
    /\ last.info # 0
    /\ last.exc = "none"

\* C6: for a matrix A without rows, dense or sparse, the constructors of
\* Solver and PosDefSolver return having invoked no external routine, and
\* solve on the instance returns an empty array having invoked none.
C6_EmptySystemNoBackend ==
    /\ (last.op \in {"Solver", "PosDefSolver"} /\ NRows(args[1]) = 0) =>
           (last.exc = "none" /\ last.calls = <<>>)
    /\ (last.op \in {"Solver.solve", "PosDefSolver.solve"} /\ solver.n = 0) =>
           /\ last.exc = "none"
           /\ last.calls = <<>>
           /\ HasZeroDim(last.val.shape)

\* C7: Solver.solve(b) for a b with a dimension of length zero returns an
\* array of the shape of b and invokes no solve routine of the backend.
C7_EmptyRhsShortCircuits ==
    (last.op = "Solver.solve" /\ HasZeroDim(args[1].shape)) =>
        /\ last.exc = "none"
        /\ last.val.shape = args[1].shape
        /\ Fns(last.calls) \cap SolveFns = {}

\* C8: after every constructor and method call, the caller's matrices and
\* right-hand sides are as they were passed, unless the call was
\* GMRESSolver(A, normalize_inplace=True).
C8_CallerObjectsUnchanged ==
    (last.op \in Constructors \cup MethodOps
        /\ ~(last.op = "GMRESSolver" /\ last.kw = TRUE)) =>
        caller = args

\* GMRESSolver built with normalize_inplace=False from a csc matrix whose
\* row norm is not one: normalising in place would have changed it.
C8_Witness ==
    /\ last.op = "GMRESSolver"
    /\ last.kw = FALSE
    /\ SharesData(args[1])
    /\ divide_rows(args[1], row_norms(args[1])) # args[1]
    /\ solver # None

\* C9: Solver's constructor invokes routines of one backend only, the sparse
\* LU backend for a sparse A and the dense one otherwise, factors at most
\* once, and stores that backend; every solve leaves the stored backend in
\* place and invokes no routine but that backend's solve, whether b is
\* dense or sparse.
C9_BackendChosenOnce ==
    [][/\ last'.op = "Solver" =>
              LET type == IF issparse(args'[1]) THEN "_SparseSolver"
                          ELSE "_DenseSolver"
                  calls == last'.calls
              IN  /\ Fns(calls) \subseteq LUFns(type)
                  /\ Cardinality({i \in DOMAIN calls : calls[i].fn \in FactorFns}) <= 1
                  /\ solver' # None => solver'._solver.type = type
       /\ last'.op = "Solver.solve" =>
              /\ solver'._solver = solver._solver
              /\ Fns(last'.calls) \subseteq {LUSolveFn(solver._solver.type)}]_vars

\* A sparse right-hand side solved by the dense backend.
C9_Witness ==
    /\ last.op = "Solver.solve"
    /\ issparse(args[1])
    /\ solver._solver.type = "_DenseSolver"
    /\ last.calls = <<Call("dgetrs", 1)>>
    /\ last.exc = "none"

\* The block matrix PartitionedSolver factors, as a dense array.
C10_Block(A, B) ==
    LET n == B.shape[1]
        p == B.shape[2]
    IN  Obj("array", <<n + p, n + p>>,
            BlockRows(A, as_array(B), Transpose(as_array(B)), Zeros(<<p, p>>)), A.bad)

\* C10: when dgetrf (Solver, PartitionedSolver) or dpotrf (PosDefSolver,
\* PartitionedPosDefSolver) reports a positive status for the matrix the
\* constructor factors, the constructor raises LinAlgError having invoked
\* that routine once and nothing else, and leaves no instance; when it
\* reports a negative status the constructor raises ValueError likewise. A
\* PartitionedPosDefSolver that raises either stopped at a dpotrf call.
C10_FactorizationFailurePropagates ==
    LET A == args[1]
        n == NRows(A)
        Fails(info, c) ==
            /\ info > 0 => last.exc = "LinAlgError"
            /\ info < 0 => last.exc = "ValueError"
            /\ info # 0 => (last.calls = <<c>> /\ solver = None)
    IN  /\ (last.op = "Solver" /\ ~issparse(A) /\ n > 0) =>
               Fails(DgetrfInfo(A), Call("dgetrf", n))
        /\ (last.op = "PosDefSolver" /\ ~issparse(A) /\ n > 0) =>
               Fails(DpotrfInfo(A), Call("dpotrf", n))
        /\ (last.op = "PartitionedSolver" /\ ~issparse(A) /\ ~WideB /\ n > 0) =>
               Fails(DgetrfInfo(C10_Block(A, args[2])),
                     Call("dgetrf", n + args[2].shape[2]))
        /\ (last.op = "PartitionedPosDefSolver" /\ ~issparse(A) /\ ~WideB /\ n > 0) =>
               /\ Fails(DpotrfInfo(A), Call("dpotrf", n))
               /\ last.exc \in {"LinAlgError", "ValueError"} =>
                      /\ solver = None
                      /\ last.calls \in
                             {<<Call("dpotrf", n)>>,
                              <<Call("dpotrf", n), Call("dpotrs", n),
                                Call("dpotrf", args[2].shape[2])>>}

\* A dense LU factorization of a block matrix that met a zero pivot.
C10_Witness ==
    /\ last.op = "PartitionedSolver"
    /\ ~issparse(args[1])
    /\ ~IsBad(args[1])
    /\ ~WideB
    /\ NRows(args[1]) > 0
    /\ last.exc = "LinAlgError"
    /\ last.calls = <<Call("dgetrf", NRows(args[1]) + args[2].shape[2])>>

\* C11: for a Solver built from A, with or without the inverse, and a b of
\* n rows, solve(b) returns an x of the shape of b with A.x = b. Arithmetic
\* is exact here, so the residual is zero.
C11_SolverSolvesSystem ==
    [][(last.op = "Solver" /\ solver # None /\ last'.op = "Solver.solve"
            /\ NRows(args'[1]) = solver.n) =>
           /\ last'.exc = "none"
           /\ last'.val.shape = args'[1].shape
           /\ Dot(as_array(args[1]), last'.val).rows = args'[1].rows]_vars

\* A sparse system of one unknown solved through the cached inverse for a
\* nonzero right-hand side.
C11_Witness ==
    /\ last.op = "Solver.solve"
    /\ last.exc = "none"
    /\ solver.n = 1
    /\ solver._solver.type = "_SparseSolver"
    /\ solver._inverse # None
    /\ args[1].shape = <<1>>
    /\ args[1].rows[1][1] # Zero

\* C12: for a Solver or PosDefSolver built from A and a b of n rows, the
\* instance built from the same A with the other value of build_inverse
\* exists, and its solve(b) returns what this one returns.
C12_InverseAndFactorsAgree ==
    [][(last.op \in {"Solver", "PosDefSolver"} /\ solver # None
            /\ last'.op \in {"Solver.solve", "PosDefSolver.solve"}
            /\ NRows(args'[1]) = solver.n) =>
           LET A == args[1]
               b == args'[1]
               twin == IF last.op = "Solver" THEN Solver_init(A, ~last.kw)
                       ELSE PosDefSolver_init(A, ~last.kw)
               other == IF last.op = "Solver" THEN Solver_solve(twin.val, b)
                        ELSE PosDefSolver_solve(twin.val, b)
           IN  /\ last'.exc = "none"
               /\ ~Raised(twin)
               /\ other.exc = "none"
               /\ other.val = last'.val]_vars

\* A 2-dimensional right-hand side solved by a PosDefSolver that holds the
\* inverse of a sparse matrix.
C12_Witness ==
    /\ last.op = "PosDefSolver.solve"
    /\ last.exc = "none"
    /\ solver.n = 1
    /\ solver._inverse # None
    /\ solver._solver.type = "_SparsePosDefSolver"
    /\ args[1].shape = <<1, 1>>
    /\ args[1].rows[1][1] # Zero

\* The second right-hand side as an array: b itself, and zeros of shape
\* (p,) + a.shape[1:] when it was omitted.
SecondRhs(p, a, b) ==
    IF b = None THEN Obj("array", <<p>> \o Tail(a.shape), Zeros(<<p>> \o Tail(a.shape)).rows,
                         FALSE)
    ELSE as_array(b)

\* The step is a solve(a, b) on the partitioned solver the constructor has
\* just returned for a positive definite A, with a of n rows and b omitted
\* or of p rows.
C13_Case ==
    /\ last.op \in {"PartitionedSolver", "PartitionedPosDefSolver"}
    /\ solver # None
    /\ ~IsBad(args[1])
    /\ Chol(args[1].rows) # NotPosDef
    /\ last'.op \in {"PartitionedSolver.solve", "PartitionedPosDefSolver.solve"}
    /\ NRows(args'[1]) = solver.n
    /\ args'[2] # None => NRows(args'[2]) = solver.p

\* C13: for a positive definite A and a B with which the constructor
\* returned, solve(a, b) returns (x, y) with A.x + B.y = a and B^T.x = b;
\* and the solver of the other partitioned class, built from the same A and
\* B with either value of build_inverse, returns the same pair (it exists
\* whenever A has rows).
C13_PartitionedSolversAgree ==
    [][C13_Case =>
           LET A == as_array(args[1])
               B == as_array(args[2])
               a == as_array(args'[1])
               b == SecondRhs(solver.p, a, args'[2])
               x == last'.val[1]
               y == last'.val[2]
               Twin(bi) == IF last.op = "PartitionedSolver"
                           THEN PartitionedPosDefSolver_init(args[1], args[2], bi)
                           ELSE PartitionedSolver_init(args[1], args[2], bi)
               TwinSolve(t) == IF last.op = "PartitionedSolver"
                               THEN PartitionedPosDefSolver_solve(t, args'[1], args'[2])
                               ELSE PartitionedSolver_solve(t, args'[1], args'[2])
           IN  /\ last'.exc = "none"
               /\ ArrAdd(Dot(A, x), Dot(B, y)).rows = a.rows
               /\ Dot(Transpose(B), x).rows = b.rows
               /\ \A bi \in BOOLEAN :
                      /\ solver.n > 0 => ~Raised(Twin(bi))
                      /\ ~Raised(Twin(bi)) =>
                             /\ TwinSolve(Twin(bi).val).exc = "none"
                             /\ TwinSolve(Twin(bi).val).val = last'.val]_vars

\* A PartitionedPosDefSolver of one unknown and one constraint, without the
\* inverse, solved for a nonzero a and a nonzero b.
C13_Witness ==
    /\ last.op = "PartitionedPosDefSolver.solve"
    /\ last.exc = "none"
    /\ solver.n = 1 /\ solver.p = 1
    /\ solver._inverse = None
    /\ args[1].rows[1][1] # Zero
    /\ args[2] # None
    /\ NRows(args[2]) = 1
    /\ args[2].rows[1][1] # Zero

\* C14: solve(a) with b omitted comes to what solve(a, b) comes to for b
\* the zero array of shape (p,) + a.shape[1:], on a PartitionedSolver and
\* on a PartitionedPosDefSolver, with and without the inverse; and for an
\* a of n rows it returns an x of n rows and a y of p rows.
C14_OmittedBIsZeroB ==
    (last.op \in {"PartitionedSolver.solve", "PartitionedPosDefSolver.solve"}
        /\ args[2] = None) =>
        LET a == args[1]
            zero == SecondRhs(solver.p, as_array(a), None)
            r == IF last.op = "PartitionedSolver.solve"
                 THEN PartitionedSolver_solve(solver, a, zero)
                 ELSE PartitionedPosDefSolver_solve(solver, a, zero)
        IN  /\ r.exc = last.exc
            /\ r.val = last.val
            /\ NRows(a) = solver.n =>
                   /\ last.exc = "none"
                   /\ NRows(last.val[1]) = solver.n
                   /\ NRows(last.val[2]) = solver.p

\* A solve with b omitted on a PartitionedSolver of one unknown and one
\* constraint, for a nonzero 2-dimensional a.
C14_Witness ==
    /\ last.op = "PartitionedSolver.solve"
    /\ args[2] = None
    /\ last.exc = "none"
    /\ solver.n = 1 /\ solver.p = 1
    /\ args[1].shape = <<1, 1>>
    /\ args[1].rows[1][1] # Zero

\* C15: PosDefSolver.solve_L(b) for a b of n rows, of any number of
\* dimensions, returns an array of the shape of b, whichever backend the
\* instance holds.
C15_SolveLAnyDimensionality ==
    (last.op = "PosDefSolver.solve_L" /\ NRows(args[1]) = solver.n) =>
        /\ last.exc = "none"
        /\ last.val.shape = args[1].shape

\* C16: the process add or subtract returns has the larger of the two orders;
\* the process scale returns has the order of the scaled process, or -1 when
\* c is zero; the process differentiate returns has the order less the sum of
\* d, and -1 where that is smaller; the process condition returns has order
\* -1; and no process the caller holds or is given has an order below -1.
C16_NullSpaceOrderRules ==
    [][/\ (last'.op \in MakingOps \ {"GaussianProcess"} /\ last'.exc = "none") =>
              LET z == last'.val
                  u == gps[args'[1]]
              IN  /\ last'.op \in {"GaussianProcess.add", "GaussianProcess.subtract"} =>
                         LET v == gps[args'[2]]
                         IN  /\ z.order >= u.order
                             /\ z.order >= v.order
                             /\ z.order \in {u.order, v.order}
                  /\ last'.op = "GaussianProcess.scale" =>
                         z.order = IF args'[2] # 0 THEN u.order ELSE -1
                  /\ last'.op = "GaussianProcess.differentiate" =>
                         LET less == u.order - sum(args'[2].tuple)
                         IN  z.order = IF less >= -1 THEN less ELSE -1
                  /\ last'.op = "GaussianProcess.condition" => z.order = -1
                  /\ z.order >= -1
       /\ \A i \in DOMAIN gps' : gps'[i].order >= -1]_vars

\* A process of order -1 was differentiated, and the process returned has
\* order -1.
C16_Witness ==
    /\ last.op = "GaussianProcess.differentiate"
    /\ last.exc = "none"
    /\ gps[args[1]].order - sum(args[2].tuple) < -1
    /\ last.val.order = -1
    /\ gps[Len(gps)] = last.val

\* The number of columns of a position array, the length of a diff given.
Columns(x) == x.shape[2]
Conflicts(diff, D) == diff # None /\ Len(diff.tuple) # D

\* C17: on a process whose dim is D, mean raises ValueError when x has other
\* than D columns or diff other than D entries, and covariance when any of
\* x1, x2, diff1, diff2 has; the call evaluates no function and leaves every
\* cache as it was.
C17_DimConflictRaisesBeforeEvaluation ==
    [][(last'.op \in EvaluatingOps /\ gps[args'[1]].dim # None) =>
           LET D == gps[args'[1]].dim.int
               a == args'
               conflict ==
                   IF last'.op = "GaussianProcess.mean"
                   THEN Columns(a[2]) # D \/ Conflicts(a[3], D)
                   ELSE \/ Columns(a[2]) # D
                        \/ Columns(a[3]) # D
                        \/ Conflicts(a[4], D)
                        \/ Conflicts(a[5], D)
           IN  conflict =>
                   /\ last'.exc = "ValueError"
                   /\ last'.calls = <<>>
                   /\ gps' = gps
                   /\ _mvmonos' = _mvmonos]_vars

\* covariance was refused on account of diff2 alone.
C17_Witness ==
    /\ last.op = "GaussianProcess.covariance"
    /\ last.exc = "ValueError"
    /\ gps[args[1]].dim # None
    /\ Columns(args[2]) = gps[args[1]].dim.int
    /\ Columns(args[3]) = gps[args[1]].dim.int
    /\ ~Conflicts(args[4], gps[args[1]].dim.int)
    /\ Conflicts(args[5], gps[args[1]].dim.int)
    /\ last.calls = <<>>

\* The sizes of the matrices a call had factored, in order.
FactorSizes(calls) ==
    LET F[k \in 0..Len(calls)] ==
            IF k = 0 THEN <<>>
            ELSE IF calls[k].fn \in FactorFns THEN Append(F[k - 1], calls[k].size)
            ELSE F[k - 1]
    IN  F[Len(calls)]
\* <<m>> for a matrix of m > 0 rows, nothing for the empty matrix.
NonEmpty(m) == IF m > 0 THEN <<m>> ELSE <<>>
NoFactorizationInMethods == last.op \in MethodOps => Fns(last.calls) \cap FactorFns = {}
ConstructedOne ==
    /\ last.op \in {"Solver", "PosDefSolver", "PartitionedSolver"}
    /\ last.exc = "none"
ConstructedTwo == last.op = "PartitionedPosDefSolver" /\ last.exc = "none"

\* C18 as stated: no method factors anything; a Solver, PosDefSolver or
\* PartitionedSolver constructor that returns has factored exactly one matrix;
\* a PartitionedPosDefSolver constructor that returns has factored exactly
\* two, A of n rows and then the Schur complement of p rows, and with
\* build_inverse False it leaves no inverse assembled.
C18_ExactlyOneOrTwoFactorizations ==
    /\ NoFactorizationInMethods
    /\ ConstructedOne => Len(FactorSizes(last.calls)) = 1
    /\ ConstructedTwo =>
           /\ FactorSizes(last.calls) = <<solver.n, solver.p>>
           /\ last.kw = FALSE => solver._inverse = None

\* C18 amended: as above, except that an empty matrix is not factored: the
\* constructors factor one matrix, or two, where those matrices have rows.
C18_FactorizationsOfNonEmptyMatrices ==
    /\ NoFactorizationInMethods
    /\ ConstructedOne =>
           FactorSizes(last.calls) =
               NonEmpty(IF last.op = "PartitionedSolver" THEN solver.n + solver.p
                        ELSE solver.n)
    /\ ConstructedTwo =>
           /\ FactorSizes(last.calls) = NonEmpty(solver.n) \o NonEmpty(solver.p)
           /\ last.kw = FALSE => solver._inverse = None

\* A PartitionedPosDefSolver was made without an inverse of a non-empty A
\* and a non-empty B: it factored A and the Schur complement.
C18_Witness ==
    /\ ConstructedTwo
    /\ last.kw = FALSE
    /\ solver.n > 0
    /\ solver.p > 0
    /\ Len(FactorSizes(last.calls)) = 2

\* The number of times a call invoked a solve routine of a backend.
NSolve(calls) == Cardinality({i \in DOMAIN calls : calls[i].fn \in SolveFns})
InverseClasses == {"Solver", "PosDefSolver", "PartitionedSolver"}
InverseSolveOps == {"Solver.solve", "PosDefSolver.solve", "PartitionedSolver.solve"}
\* The backend is one of the LAPACK wrappers, which return at once for a
\* right-hand side with a zero dimension.
DenseBackend(s) == s._solver.type \in {"_DenseSolver", "_DensePosDefSolver"}
\* The shape of the right-hand side the last solve call had for the backend.
BackendRhsShape ==
    LET a == as_array(args[1])
    IN  IF last.op = "PartitionedSolver.solve"
        THEN <<NRows(a) + (IF args[2] = None THEN solver.p
                           ELSE NRows(as_array(args[2])))>> \o Tail(a.shape)
        ELSE a.shape
\* The identity the constructor solved against.
IdentityShape ==
    IF last.op = "PartitionedSolver"
    THEN <<solver.n + solver.p, solver.n + solver.p>>
    ELSE <<solver.n, solver.n>>
\* The instance has an inverse cached exactly if it had before the step, for
\* every step that calls a method of it.
InverseKept ==
    (last'.op \in MethodOps /\ solver.cls \in InverseClasses) =>
        (solver'._inverse = None <=> solver._inverse = None)
BuiltWith(build_inverse) ==
    /\ last.op \in InverseClasses
    /\ last.exc = "none"
    /\ last.kw = build_inverse
SolvedWithInverse == last.op \in InverseSolveOps /\ solver._inverse # None
SolvedWithFactors ==
    /\ last.op \in InverseSolveOps
    /\ solver._inverse = None
    /\ last.exc = "none"

\* C19 as stated: a Solver, PosDefSolver or PartitionedSolver constructor
\* given build_inverse True invokes the solve routine of its backend exactly
\* once and caches the inverse, and a later solve invokes no routine; given
\* build_inverse False it caches no inverse, none appears later, and every
\* solve that returns has invoked the solve routine of the backend.
C19_BackendSolveOnceOrEachTime ==
    [][/\ InverseKept
       /\ (BuiltWith(TRUE) => (NSolve(last.calls) = 1 /\ solver._inverse # None))'
       /\ (BuiltWith(FALSE) => solver._inverse = None)'
       /\ (SolvedWithInverse => last.calls = <<>>)'
       /\ (SolvedWithFactors => NSolve(last.calls) = 1)']_vars

\* C19 amended: as above, except that the LAPACK wrappers invoke no routine
\* for a right-hand side with a zero dimension: not for the identity of an
\* empty system at construction, and not for an empty right-hand side later.
C19_BackendSolveUnlessEmpty ==
    [][/\ InverseKept
       /\ (BuiltWith(TRUE) =>
               /\ solver._inverse # None
               /\ NSolve(last.calls) =
                      IF DenseBackend(solver) /\ HasZeroDim(IdentityShape) THEN 0 ELSE 1)'
       /\ (BuiltWith(FALSE) => solver._inverse = None)'
       /\ (SolvedWithInverse => last.calls = <<>>)'
       /\ (SolvedWithFactors =>
               NSolve(last.calls) =
                   IF DenseBackend(solver) /\ HasZeroDim(BackendRhsShape) THEN 0 ELSE 1)']_vars

\* A PosDefSolver with a cached inverse solved a non-empty system.
C19_Witness ==
    /\ last.op = "PosDefSolver.solve"
    /\ last.exc = "none"
    /\ solver._inverse # None
    /\ solver.n > 0
    /\ ~HasZeroDim(args[1].shape)
    /\ last.calls = <<>>

\* The step from GMRESSolver(A) to a solve(b) on the instance it returned,
\* with b of as many entries as A has rows.
C20_Case ==
    /\ last.op = "GMRESSolver"
    /\ solver # None
    /\ last'.op = "GMRESSolver.solve"
    /\ NRows(args'[1]) = NRows(args[1])

\* C20: the instance holds the Euclidean norms of the rows of the matrix the
\* caller passed, and that matrix with each row divided by its norm; a solve
\* that converges returns the x for which the stored matrix times x is b
\* divided by the norms, and that x solves the caller's system A.x = b as it
\* is returned.
C20_RowNormalisationKeepsSolution ==
    [][C20_Case =>
           LET A == as_array(args[1])
               b == args'[1]
               x == last'.val
               m == NRows(A)
           IN  /\ Len(solver.n) = m
               /\ \A i \in 1..m :
                      /\ RPos(solver.n[i])
                      /\ RMul(solver.n[i], solver.n[i]) = SumSq(A.rows[i], m)
                      /\ \A k \in 1..m :
                             RMul(solver.A.rows[i][k], solver.n[i]) = A.rows[i][k]
               /\ solver' = solver
               /\ last'.exc = "none"
               /\ last'.info = 0 =>
                      /\ x.shape = b.shape
                      /\ \A i \in 1..m :
                             RMul(Dot(solver.A, x).rows[i][1], solver.n[i]) = b.rows[i][1]
                      /\ Dot(A, x).rows = b.rows]_vars

\* A solve converged on an instance whose row norm is not one, for a b that
\* is not zero.
C20_Witness ==
    /\ last.op = "GMRESSolver.solve"
    /\ last.exc = "none"
    /\ last.info = 0
    /\ solver.n[1] # One
    /\ args[1].rows[1][1] # Zero
    /\ last.val.rows[1][1] # Zero

\* ---- C21..C26: _Memoize (SpecMemo)

\* The instance the caller works on, z._mean, and the one linked to it
TheMemo == gps[2]._mean
TheLinked == gps[2]._covariance
\* The keys of a cache, oldest first
Keys(f) == [k \in DOMAIN f.cache |-> f.cache[k].key]
HasKey(f, key) == \E k \in DOMAIN f.cache : f.cache[k].key = key
\* The step is a call of z._mean, directly or through z.mean(x)
IsMemoCall == last'.op \in {"_Memoize.__call__", "GaussianProcess.mean"}
\* and these are the arguments z._mean got
MemoCallArgs ==
    IF last'.op = "_Memoize.__call__"
    THEN args'
    ELSE <<args'[1], np_zeros(args'[1].shape[2])>>
\* The evaluations of the wrapped function: fin of z._mean evaluates u._mean
\* once, and nothing else.
NEvaluations(calls) == Cardinality({k \in DOMAIN calls : calls[k] = Call("_mean", 1)})

\* C21: a call of a _Memoize evaluates the wrapped function exactly once when
\* the key of its arguments is not in the cache; when the key is in the cache it
\* does not evaluate it and returns the stored value.
C21_EvaluatedOnceOnMissNeverOnHit ==
    [][IsMemoCall =>
           LET key == Key(MemoCallArgs)
           IN  /\ ~HasKey(TheMemo, key) =>
                      /\ NEvaluations(last'.calls) = 1
                      /\ Len(last'.calls) = 1
               /\ HasKey(TheMemo, key) =>
                      /\ last'.calls = <<>>
                      /\ last'.exc = "none"
                      /\ last'.op = "_Memoize.__call__" =>
                             last'.val = Lookup(TheMemo, key)
                      /\ last'.op = "GaussianProcess.mean" =>
                             last'.val.data = Lookup(TheMemo, key).data]_vars
\* A direct call was a hit: nothing was evaluated and the entry is what it
\* returned.
C21_Witness ==
    /\ last.op = "_Memoize.__call__"
    /\ last.exc = "none"
    /\ last.calls = <<>>
    /\ HasKey(TheMemo, Key(args))
    /\ last.val = Lookup(TheMemo, Key(args))

\* The last Min(n, Len(t)) elements of t
Newest(t, n) == IF Len(t) <= n THEN t ELSE SubSeq(t, Len(t) - n + 1, Len(t))
\* What C22 says of a step, for the cache before it
OldestRemoved ==
    /\ (/\ IsMemoCall
        /\ ~HasKey(TheMemo, Key(MemoCallArgs))
        /\ Len(TheMemo.cache) = TheMemo.cache_size) =>
           Keys(TheMemo') = Newest(Keys(TheMemo), Len(TheMemo.cache) - 1)
    /\ last'.op = "_Memoize.set_cache_size" =>
           Keys(TheMemo') = Newest(Keys(TheMemo), args'[1].int)

\* C22: a miss of a _Memoize whose cache holds exactly cache_size entries
\* removes the oldest entry and no other; set_cache_size(v) removes entries
\* oldest first until at most v remain.
C22_OldestEntryRemoved == [][OldestRemoved]_vars
\* The same for an instance whose cache is still the OrderedDict of __init__
C22_OldestRemovedFromOrderedDict == [][TheMemo.ordered => OldestRemoved]_vars

\* The value that z._mean or z._covariance computes for the arguments of
\* z.mean(x) or z.covariance(x1, x2)
ValueAt(op, passed) ==
    IF op = "GaussianProcess.mean"
    THEN Output(2, "_mean", <<passed[1], np_zeros(passed[1].shape[2])>>).data
    ELSE Output(2, "_covariance",
                <<passed[1], passed[2], np_zeros(passed[1].shape[2]),
                  np_zeros(passed[2].shape[2])>>).data
EntryIntact(e) ==
    /\ ~e.output.writeable
    /\ e.output.data = Output(e.output.id.gp, e.output.id.which, e.output.data.at).data
    /\ Key(e.output.data.at) = e.key

\* C23: every array stored in a _Memoize cache is read-only, and
\* GaussianProcess.mean and GaussianProcess.covariance return a new writeable
\* copy; whatever the caller wrote into returned arrays, the caches hold the
\* values that were computed and a call returns the value of its arguments.
C23_CachedArraysUnchangedByCaller ==
    /\ \A f \in {TheMemo, TheLinked} : \A k \in DOMAIN f.cache : EntryIntact(f.cache[k])
    /\ (last.op \in EvaluatingOps /\ last.exc = "none") =>
           /\ last.val.writeable
           /\ last.val.id = None
           /\ last.val.data = ValueAt(last.op, args)
    /\ (last.op = "_Memoize.__call__" /\ last.exc = "none") =>
           last.val.data = Output(2, "_mean", args).data
\* The caller wrote into an array that z.mean returned, and the entry that
\* array was copied from is in the cache, unchanged.
C23_Witness ==
    /\ last.op = "ndarray.__setitem__"
    /\ last.exc = "none"
    /\ last.val.data.written
    /\ last.val.data.which = "_mean"
    /\ HasKey(TheMemo, Key(last.val.data.at))
    /\ EntryIntact(TheMemo.cache[1])

MemoOps == {"_Memoize.__call__", "_Memoize.set_cache_size", "_Memoize.clear_cache"}

\* C24: after any sequence of calls, set_cache_size(v) with v >= 0 and
\* clear_cache on a _Memoize, the cache holds at most cache_size entries, and
\* none of these operations raised.
C24_AtMostCacheSizeAndNoneRaises ==
    /\ Len(TheMemo.cache) <= TheMemo.cache_size
    /\ last.op \in MemoOps => last.exc = "none"

\* C25: after a call of a _Memoize that missed and returned, the key of the
\* call is in the cache, so that the same call repeated at once evaluates
\* nothing and returns the entry; also when the cache held cache_size entries.
C25_MissedKeyIsCached ==
    [][(/\ IsMemoCall
        /\ ~HasKey(TheMemo, Key(MemoCallArgs))
        /\ last'.exc = "none") =>
           LET again == Memoize_call(Start', 2, "_mean", MemoCallArgs)
           IN  /\ HasKey(TheMemo', Key(MemoCallArgs))
               /\ again.calls = <<>>
               /\ again.gps = gps']_vars

\* clear_cache left the cache of the instance and of every instance linked to
\* it empty
ClearedAll ==
    /\ TheMemo.cache = <<>>
    /\ \A k \in DOMAIN TheMemo.links : Deref(Start, TheMemo.links[k]).cache = <<>>
\* A call or a set_cache_size on an instance that keeps at least one entry
\* completed without error
Completed ==
    (last.op \in {"_Memoize.__call__", "_Memoize.set_cache_size"}
        /\ TheMemo.cache_size > 0) => last.exc = "none"

\* clear_cache has run on the instance: its cache is the dict that
\* clear_cache assigned, which no other method replaces
WasCleared == ~TheMemo.ordered

\* C26: after clear_cache on a _Memoize, its cache and the cache of every
\* linked instance are empty, and every later call and every later
\* set_cache_size completes without error, also a miss that comes once the
\* cache has been refilled to cache_size entries.
C26_ClearedBehavesAsNew ==
    /\ last.op = "_Memoize.clear_cache" => ClearedAll
    /\ WasCleared => Completed

====
